---- MODULE Spec2Model ----
(***************************************************************************)
(* A model of the numerical-geometry and formatting routines of            *)
(* python/lsst/pipe/analysis/utils.py (orthogonalRegression,               *)
(* distanceSquaredToPoly, p1CoeffsFromP2x0y0, p2p1CoeffsFromLinearFit,     *)
(* lineFromP2Coeffs, linesFromP2P1Coeffs, makeEqnStr), of the EUPS         *)
(* helpers (getEups, andCatalog) and of the catalog helpers.               *)
(*                                                                         *)
(* Every routine is a synchronous function.  A caller (the environment)    *)
(* picks the arguments from bounded sets and calls one routine; the        *)
(* routine runs to completion (returning or raising) and the caller then   *)
(* takes the result and becomes idle again.                                *)
(*                                                                         *)
(* Numbers.  Python floats are modelled by exact numbers: a rational is a  *)
(* pair <<n, d>> in lowest terms with d > 0, and a "real" is c*sqrt(r)     *)
(* with c rational and r a square-free positive integer, which is closed   *)
(* under every operation the routines apply to the inputs drawn here.      *)
(* Rounding error of the floating-point unit is not modelled.              *)
(* Python sequences are 0-based, TLA+ sequences 1-based: p[k] in the       *)
(* source is p[k+1] here.                                                  *)
(***************************************************************************)
EXTENDS Integers, Sequences, FiniteSets, TLC

VARIABLES pc, call, result,
          eupsGlobal,    \* the module global _eups: 0 (None) or the handle stored
          eupsBuilt,     \* the number of Eups() handles constructed so far
          setupVersion,  \* the set-up version of astrometry_net_data
          frames,        \* the andCatalog blocks entered and not yet left
          exc            \* "raised" while an exception propagates, else "none"

eupsVars == <<eupsGlobal, eupsBuilt, setupVersion, frames, exc>>
vars == <<pc, call, result, eupsGlobal, eupsBuilt, setupVersion, frames, exc>>

(***************************************************************************)
(* Bounds of the model.                                                    *)
(***************************************************************************)
\* Longest coefficient / label list handed to makeEqnStr.
MaxLen == 2
\* Largest numerator of a slope (over 1 or 2) or intercept (over 2).
MaxNum == 2
\* Largest coordinate of an origin (x0, y0).
MaxCoord == 1
\* Number of data points handed to orthogonalRegression.
NumPoints == 4
\* Longest caller-supplied initial guess.
MaxGuessLen == 4
\* Largest polynomial order requested (orders run from -1).
MaxOrder == 4
\* Most coefficients of a polynomial handed to distanceSquaredToPoly.
MaxPolyLen == 3

\* Deepest nesting of andCatalog blocks.
MaxDepth == 2
\* Most rows of a source catalog.
MaxRows == 2

(***************************************************************************)
(* Integers and rationals.  The operators test their arguments first, so   *)
(* that TLC evaluates an argument before it descends into the operator's   *)
(* own definitions.                                                        *)
(***************************************************************************)
Abs(i) == IF i < 0 THEN -i ELSE i

\* The greatest common divisor of a >= 0 and b >= 0, not both 0.
Gcd(a, b) ==
    IF a = 0 THEN b
    ELSE IF b = 0 THEN a
    ELSE LET m == IF a < b THEN a ELSE b
             D == {g \in 1..m : a % g = 0 /\ b % g = 0}
         IN  CHOOSE g \in D : \A h \in D : h <= g

\* The rational n/d (d # 0) in lowest terms with a positive denominator.
Rat(n, d) ==
    IF n = 0 THEN <<0, 1>>
    ELSE LET g == IF d < 0 THEN 0 - Gcd(Abs(n), Abs(d)) ELSE Gcd(Abs(n), Abs(d))
         IN  <<n \div g, d \div g>>

RInt(i) == <<i, 1>>
RZero == <<0, 1>>
ROne == <<1, 1>>
RAdd(p, q) == IF p[1] = 0 THEN q ELSE Rat(p[1] * q[2] + q[1] * p[2], p[2] * q[2])
RNeg(p) == <<-p[1], p[2]>>
RSub(p, q) == IF q[1] = 0 THEN p ELSE Rat(p[1] * q[2] - q[1] * p[2], p[2] * q[2])
RMul(p, q) == IF p[1] = 0 \/ q[1] = 0 THEN RZero ELSE Rat(p[1] * q[1], p[2] * q[2])
RLt(p, q) == p[1] * q[2] < q[1] * p[2]
RAbs(p) == <<Abs(p[1]), p[2]>>
RSq(p) == RMul(p, p)

\* All sequences over S of length 0..n.
SeqsUpTo(S, n) == UNION {[1..k -> S] : k \in 0..n}

(***************************************************************************)
(* Reals of the form c*sqrt(r): c rational, r a square-free integer >= 1   *)
(* (r = 1 when c = 0), so that equal numbers have equal representations.   *)
(***************************************************************************)
\* The largest s whose square divides n >= 1.
LargestSquareRoot(n) ==
    LET S == {k \in 1..n : k * k <= n /\ n % (k * k) = 0}
    IN  CHOOSE k \in S : \A h \in S : h <= k

\* (n/d)*sqrt(r) with n/d brought to lowest terms.
Real(n, d, r) ==
    IF n = 0 THEN [c |-> <<0, 1>>, r |-> 1]
    ELSE LET g == IF d < 0 THEN 0 - Gcd(Abs(n), Abs(d)) ELSE Gcd(Abs(n), Abs(d))
         IN  [c |-> <<n \div g, d \div g>>, r |-> r]
XRat(q) == Real(q[1], q[2], 1)
XInt(i) == [c |-> <<i, 1>>, r |-> 1]
XZero == [c |-> <<0, 1>>, r |-> 1]
XOne == [c |-> <<1, 1>>, r |-> 1]
XIsZero(a) == a.c[1] = 0
XIsRational(a) == a.r = 1
XIsPositive(a) == a.c[1] > 0
XNeg(a) == [c |-> <<-a.c[1], a.c[2]>>, r |-> a.r]

\* sqrt(a)*sqrt(b) = g*sqrt((a/g)*(b/g)) for square-free a, b with g = gcd(a, b).
XMul(a, b) ==
    IF a.c[1] = 0 \/ b.c[1] = 0 THEN XZero
    ELSE LET g == Gcd(a.r, b.r)
         IN  Real(a.c[1] * b.c[1] * g, a.c[2] * b.c[2], (a.r \div g) * (b.r \div g))

\* a/b for b # 0: 1/sqrt(r) = sqrt(r)/r.
XDiv(a, b) ==
    IF a.c[1] = 0 /\ b.c[1] # 0 THEN XZero
    ELSE LET g == Gcd(a.r, b.r)
         IN  Real(a.c[1] * b.c[2] * g, a.c[2] * b.c[1] * b.r,
                  (a.r \div g) * (b.r \div g))
XInv(a) == XDiv(XOne, a)

\* A sum is representable when both terms have the same radicand or one is 0,
\* which is the case for every sum the routines form on the inputs drawn here;
\* any other sum has no value in the model and makes TLC report an error.
XAdd(a, b) ==
    IF a.c[1] = 0 THEN (IF b.c[1] = 0 /\ b.c[2] # 0 THEN XZero ELSE b)
    ELSE IF b.c[1] = 0 THEN a
    ELSE IF a.r = b.r
         THEN Real(a.c[1] * b.c[2] + b.c[1] * a.c[2], a.c[2] * b.c[2], a.r)
    ELSE CHOOSE v \in {} : TRUE
XSub(a, b) == XAdd(a, XNeg(b))
XSq(a) == XMul(a, a)

\* The non-finite values of a numpy float: a zero denominator marks them.
NaN == [c |-> <<0, 0>>, r |-> 1]
PosInf == [c |-> <<1, 0>>, r |-> 1]
NegInf == [c |-> <<0 - 1, 0>>, r |-> 1]
XIsFinite(a) == a.c[2] # 0

\* The float -0.0, written 0/(-1).  It is a zero for every operator above;
\* its sign is kept by negation and division, where a later quotient by it
\* turns the sign into that of an infinity.  The sign of a zero sum or
\* product is not kept: those give +0.0.
NegZero == [c |-> <<0, 0 - 1>>, r |-> 1]
\* The sign bit of a float other than nan.
IsNegative(a) == a.c[1] < 0 \/ a = NegZero
SignedZero(negative) == IF negative THEN NegZero ELSE XZero
SignedInf(negative) == IF negative THEN NegInf ELSE PosInf

\* -a for a float a.
NpNeg(a) ==
    IF a.c[1] = 0 /\ a.c[2] # 0 THEN SignedZero(~IsNegative(a)) ELSE XNeg(a)

\* a/b for numpy floats a, b (both finite): division by zero gives, with a
\* warning, nan for 0/0 and otherwise an infinity whose sign is the product
\* of the signs of a and of the zero.
NpDivide(a, b) ==
    IF b.c[1] # 0
    THEN (IF a.c[1] = 0 THEN SignedZero(IsNegative(a) # IsNegative(b))
          ELSE XDiv(a, b))
    ELSE IF a.c[1] = 0 THEN NaN
    ELSE SignedInf(IsNegative(a) # IsNegative(b))

\* a*v for a finite a and a non-finite v.
TimesNonFinite(a, v) ==
    IF v = NaN \/ a.c[1] = 0 THEN NaN
    ELSE IF a.c[1] > 0 THEN v
    ELSE IF v = PosInf THEN NegInf
    ELSE PosInf

\* Python's a/b raises ZeroDivisionError for a zero divisor when a and b are
\* Python floats, and does not when they are numpy floats.
DivisionRaises(b, numpy) == ~numpy /\ b.c[1] = 0

\* numpy.sqrt of a non-negative real that is rational (all the routines take
\* roots of sums of squares, which are): sqrt(n/d) = sqrt(n*d)/d, with the
\* square part of n*d extracted.
XSqrt(a) ==
    IF a.c[1] = 0 THEN XZero
    ELSE IF a.r = 1
         THEN LET n == a.c[1] * a.c[2]
                  s == LargestSquareRoot(n)
              IN  Real(s, a.c[2], n \div (s * s))
    ELSE CHOOSE v \in {} : TRUE

\* numpy.cos(numpy.arctan(t)) = 1/sqrt(1 + t^2) and numpy.sin(numpy.arctan(t))
\* = t/sqrt(1 + t^2) (arctan maps into (-pi/2, pi/2), where the cosine is
\* > 0).  For t = (n/d)*sqrt(r): 1 + t^2 = k/d^2 with k = d^2 + n^2*r, so
\* the cosine is d/sqrt(k) = (d*s/k)*sqrt(k/s^2), s^2 the square part of k.
\* arctan(+-inf) = +-pi/2, with cosine 0 and sine +-1; nan gives nan.
CosArctan(t) ==
    IF t.c[2] = 0 THEN (IF t.c[1] = 0 THEN NaN ELSE XZero)
    ELSE IF t.c[1] = 0 THEN XOne
    ELSE LET k == t.c[2] * t.c[2] + t.c[1] * t.c[1] * t.r
             s == LargestSquareRoot(k)
         IN  Real(t.c[2] * s, k, k \div (s * s))
SinArctan(t) ==
    IF t.c[2] = 0
    THEN (IF t.c[1] = 0 THEN NaN ELSE IF t.c[1] > 0 THEN XOne ELSE XNeg(XOne))
    ELSE XMul(t, CosArctan(t))

(***************************************************************************)
(* makeEqnStr (utils.py 1405-1441).                                        *)
(***************************************************************************)
Digits == <<"0", "1", "2", "3", "4", "5", "6", "7", "8", "9">>

\* str(n) for a natural number n.
RECURSIVE NatStr(_)
NatStr(n) == IF n < 10 THEN Digits[n + 1] ELSE NatStr(n \div 10) \o Digits[(n % 10) + 1]

\* n/d (n >= 0, d > 0) rounded to the nearest integer, ties to even: the
\* rounding "{:.3f}".format applies to the exact value of the float.
RoundHalfEven(n, d) ==
    LET q == n \div d
        r == n % d
    IN  IF 2 * r > d THEN q + 1
        ELSE IF 2 * r < d THEN q
        ELSE IF q % 2 = 0 THEN q ELSE q + 1

\* "{:.3f}".format(v) for a rational v >= 0.
Format3f(v) ==
    LET t == RoundHalfEven(1000 * v[1], v[2])
        f == t % 1000
    IN  NatStr(t \div 1000) \o "." \o Digits[(f \div 100) + 1]
            \o Digits[((f \div 10) % 10) + 1] \o Digits[(f % 10) + 1]

\* plusMinus = " $-$ " if coeff < 0.0 else " + "            (line 1435)
PlusMinus(coeff) == IF RLt(coeff, RZero) THEN " $-$ " ELSE " + "

\* plusMinus.strip(" ")                                       (line 1437)
PlusMinusStripped(coeff) == IF RLt(coeff, RZero) THEN "$-$" ELSE "+"

\* coeffStr = "{:.3f}".format(abs(coeff)) + band             (line 1434)
CoeffStr(coeff, band) == Format3f(RAbs(coeff)) \o band

\* The body of the loop of lines 1433-1439 from index i on.
RECURSIVE EqnLoop(_, _, _, _)
EqnLoop(eqnStr, coeffList, exponentList, i) ==
    IF i > Len(coeffList) \/ i > Len(exponentList) THEN eqnStr
    ELSE LET coeffStr == CoeffStr(coeffList[i], exponentList[i])
             next == IF i = 1
                     THEN eqnStr \o PlusMinusStripped(coeffList[i]) \o coeffStr
                     ELSE eqnStr \o PlusMinus(coeffList[i]) \o coeffStr
         IN  EqnLoop(next, coeffList, exponentList, i + 1)

\* A variant without the length check of lines 1428-1430 (zip truncates).
makeEqnStrUnchecked(varName, coeffList, exponentList) ==
    [raised |-> "none", assigned |-> TRUE,
     eqnStr |-> EqnLoop(varName \o " = ", coeffList, exponentList, 1)]

\* The call: raised names the exception ("none": returned), assigned tells
\* whether the local eqnStr was bound before the call ended.
makeEqnStr(varName, coeffList, exponentList) ==
    IF Len(coeffList) # Len(exponentList)
    THEN [raised |-> "RuntimeError", assigned |-> FALSE, eqnStr |-> ""]
    ELSE [raised |-> "none", assigned |-> TRUE,
          eqnStr |-> EqnLoop(varName \o " = ", coeffList, exponentList, 1)]

\* Coefficients offered to makeEqnStr, in sixteenths (exact as floats).
CoeffSixteenths == {-24, -3, -1, 0, 1, 3, 32}
CoeffVals == {Rat(k, 16) : k \in CoeffSixteenths}
BandVals == {"c1", "c2"}
VarNames == {"P1"}

(***************************************************************************)
(* orthogonalRegression (utils.py 1170-1219).                              *)
(***************************************************************************)
\* The sum of the integers s[1..n].
RECURSIVE SumOver(_, _)
SumOver(s, n) == IF n = 0 THEN 0 ELSE SumOver(s, n - 1) + s[n]

\* scipy.stats.linregress(x, y) for data with integer values: the least-
\* squares slope (element 0) and intercept (element 1),
\*   slope = cov(x, y)/var(x) = (n*Sxy - Sx*Sy)/(n*Sxx - Sx*Sx),
\*   intercept = mean(y) - slope*mean(x).
linregress(x, y) ==
    LET n == Len(x)
        sx == SumOver(x, n)
        sy == SumOver(y, n)
        sxy == SumOver([i \in 1..n |-> x[i] * y[i]], n)
        sxx == SumOver([i \in 1..n |-> x[i] * x[i]], n)
        slope == Rat(n * sxy - sx * sy, n * sxx - sx * sx)
    IN  <<slope, RSub(Rat(sy, n), RMul(slope, Rat(sx, n)))>>

\* A variant padding at the end of the list instead of its front.
RECURSIVE PadGuessRight(_, _)
PadGuessRight(guess, n) == IF n <= 0 THEN guess ELSE PadGuessRight(guess \o <<RZero>>, n - 1)

\* for i in range(order - 1): initialGuess.insert(0, 0.0)   (lines 1204-1205)
RECURSIVE PadGuess(_, _)
PadGuess(guess, n) == IF n <= 0 THEN guess ELSE PadGuess(<<RZero>> \o guess, n - 1)

\* lines 1201-1205: the vector later handed to the solver as beta0.  An
\* initial guess is [given |-> FALSE] (None) or [given |-> TRUE, v |-> list].
SeedGuess(x, y, order, initialGuess) ==
    IF initialGuess.given THEN initialGuess.v
    ELSE PadGuess(linregress(x, y), order - 1)

\* A variant whose last branch takes every other order as cubic.
OdrModelNoElse(order) ==
    IF order = 1 THEN "fLinear" ELSE IF order = 2 THEN "fQuadratic" ELSE "fCubic"

\* lines 1206-1214
OdrModelFor(order) ==
    IF order = 1 THEN "fLinear"
    ELSE IF order = 2 THEN "fQuadratic"
    ELSE IF order = 3 THEN "fCubic"
    ELSE "RuntimeError"

\* The highest index of p that fLinear, fQuadratic, fCubic read (lines 1170-
\* 1179), plus one: a shorter p makes them raise IndexError.
ParamsRead(model) ==
    IF model = "fLinear" THEN 2 ELSE IF model = "fQuadratic" THEN 3 ELSE 4

\* A variant reading p highest power first.
fModelHighestFirst(model, p, x) ==
    LET xr == RInt(x)
    IN  IF model = "fLinear" THEN RAdd(RMul(p[1], xr), p[2])
        ELSE IF model = "fQuadratic"
        THEN RAdd(RMul(RAdd(RMul(p[1], xr), p[2]), xr), p[3])
        ELSE RAdd(RMul(RAdd(RMul(RAdd(RMul(p[1], xr), p[2]), xr), p[3]), xr), p[4])

\* fLinear, fQuadratic, fCubic (lines 1170-1179) at an integer abscissa:
\* p[0] + p[1]*x (+ p[2]*x**2 (+ p[3]*x**3)), p[k] of the source being
\* p[k + 1] here.
fModel(model, p, x) ==
    LET xr == RInt(x)
        x2 == RInt(x * x)
        x3 == RInt(x * x * x)
    IN  IF model = "fLinear" THEN RAdd(p[1], RMul(p[2], xr))
        ELSE IF model = "fQuadratic"
        THEN RAdd(RAdd(p[1], RMul(p[2], xr)), RMul(p[3], x2))
        ELSE RAdd(RAdd(RAdd(p[1], RMul(p[2], xr)), RMul(p[3], x2)), RMul(p[4], x3))

\* The model curve of parameters beta passes through every data point: the
\* sum of squared orthogonal distances the solver minimises is 0.
OdrFits(x, y, model, beta) ==
    \A i \in 1..Len(x) : fModel(model, beta, x[i]) = RInt(y[i])

\* orthDist.run() (line 1217): the parameter vectors the solver may end with,
\* among the vectors over vals as long as beta0 (scipy.odr fits exactly the
\* parameters of beta0).  When some of them put the curve through every data
\* point the solver ends with one of those, the minimum of its objective;
\* otherwise the environment chooses.  No fit is run for an order that is
\* rejected or a beta0 too short for the model function.
OdrOutcomes(x, y, model, beta0, vals) ==
    IF model = "RuntimeError" THEN {<<>>}
    ELSE IF Len(beta0) < ParamsRead(model) THEN {<<>>}
    ELSE LET all == [1..Len(beta0) -> vals]
             exact == {b \in all : OdrFits(x, y, model, b)}
         IN  IF exact = {} THEN all ELSE exact

\* A variant returning the solver's vector as it is.
NotReversed(s) == s

\* list(reversed(orthRegFit.beta))                              (line 1219)
Reversed(s) == [i \in 1..Len(s) |-> s[Len(s) + 1 - i]]

\* The call.  odrBeta is the parameter vector the ODR solver ends with: as
\* long as beta0 (scipy.odr fits exactly the parameters of beta0), its values
\* are the solver's, chosen by the environment.  scipy.odr.ODR evaluates the
\* model function on beta0 when it is constructed (line 1216), so a beta0 too
\* short for the model raises IndexError before any fit is run.
\* The result: raised (the exception, "none": returned), seed (initialGuess
\* after line 1205), odrCalls (ODR objects constructed) with the beta0 given
\* to it, odrRuns (fits run), beta (the fitted parameters), ret (the list
\* returned).
orthogonalRegression(x, y, order, initialGuess, odrBeta) ==
    LET seed == SeedGuess(x, y, order, initialGuess)
        odrModel == OdrModelFor(order)
    IN  IF odrModel = "RuntimeError"
        THEN [raised |-> "RuntimeError", seed |-> seed, odrModel |-> "none",
              odrCalls |-> 0, beta0 |-> <<>>, odrRuns |-> 0, beta |-> <<>>,
              returned |-> FALSE, ret |-> <<>>]
        ELSE IF Len(seed) < ParamsRead(odrModel)
        THEN [raised |-> "IndexError", seed |-> seed, odrModel |-> odrModel,
              odrCalls |-> 1, beta0 |-> seed, odrRuns |-> 0, beta |-> <<>>,
              returned |-> FALSE, ret |-> <<>>]
        ELSE [raised |-> "none", seed |-> seed, odrModel |-> odrModel,
              odrCalls |-> 1, beta0 |-> seed, odrRuns |-> 1, beta |-> odrBeta,
              returned |-> TRUE, ret |-> Reversed(odrBeta)]

\* The data sets offered: NumPoints points with distinct abscissae and every
\* choice of ordinates in {0, 1}, and the first 2..NumPoints of the points
\* (x, 2x + 1).
XData == [i \in 1..NumPoints |-> i * i - 1]
YDataVals == [1..NumPoints -> {0, 1}]
LineData(n) == [x |-> SubSeq(XData, 1, n), y |-> [i \in 1..n |-> 2 * XData[i] + 1]]
DataVals ==
    {[x |-> XData, y |-> y] : y \in YDataVals} \cup {LineData(n) : n \in 2..NumPoints}
\* The initial guesses offered: None, and lists of every length 0..MaxGuessLen.
GuessVals ==
    {[given |-> FALSE, v |-> <<>>]} \cup
    {[given |-> TRUE, v |-> [i \in 1..k |-> Rat(sc * i, 2)]] :
        k \in 0..MaxGuessLen, sc \in {1, 0 - 3}}
OrderVals == (0 - 1)..MaxOrder
\* The values a fitted parameter may end with.
FitVals == {RInt(1), RInt(2)}

(***************************************************************************)
(* distanceSquaredToPoly (utils.py 1222-1243).                             *)
(***************************************************************************)
RECURSIVE Pow(_, _)
Pow(a, n) == IF n = 0 THEN 1 ELSE a * Pow(a, n - 1)

\* numpy.poly1d(coeffs)(x), coefficients highest power first (Horner).
RECURSIVE PolyCall(_, _, _)
PolyCall(coeffs, x, n) == IF n = 0 THEN 0 ELSE PolyCall(coeffs, x, n - 1) * x + coeffs[n]

\* A variant evaluating the polynomial at x1 instead of x2.
distanceSquaredAtX1(x1, y1, x2, poly) ==
    [value |-> Pow(x2 - x1, 2) + Pow(PolyCall(poly, x1, Len(poly)) - y1, 2),
     evals |-> <<x1>>]

\* line 1243; evals lists the abscissae poly was called with.
distanceSquaredToPoly(x1, y1, x2, poly) ==
    [value |-> Pow(x2 - x1, 2) + Pow(PolyCall(poly, x2, Len(poly)) - y1, 2),
     evals |-> <<x2>>]

PolyCoeffVals == {0 - 2, 0, 1}
PolyVals == UNION {[1..k -> PolyCoeffVals] : k \in 1..MaxPolyLen}

(***************************************************************************)
(* The P1/P2 transforms (utils.py 1246-1402).                              *)
(***************************************************************************)
\* A variant with the sign of the y0 term of deltaP1 flipped.
p1CoeffsWrongSign(p2Coeffs, x0, y0) ==
    LET mP1 == NpDivide(p2Coeffs[1], p2Coeffs[3])
        cosTheta == CosArctan(mP1)
        sinTheta == SinArctan(mP1)
        deltaP1 == XAdd(XNeg(XMul(cosTheta, x0)), XMul(sinTheta, y0))
    IN  IF mP1 = NaN THEN <<NaN, NaN, NaN, NaN>>
        ELSE <<cosTheta, XSub(sinTheta, cosTheta), XNeg(sinTheta), deltaP1>>

\* A variant that guards the division: nan coefficients for a zero divisor.
p1CoeffsGuarded(p2Coeffs, x0, y0) ==
    LET mP1 == NpDivide(p2Coeffs[1], p2Coeffs[3])
        cosTheta == CosArctan(mP1)
        sinTheta == SinArctan(mP1)
        deltaP1 == XSub(XNeg(XMul(cosTheta, x0)), XMul(sinTheta, y0))
    IN  IF XIsZero(p2Coeffs[3]) \/ mP1 = NaN THEN <<NaN, NaN, NaN, NaN>>
        ELSE <<cosTheta, XSub(sinTheta, cosTheta), XNeg(sinTheta), deltaP1>>

\* lines 1270-1276, for p2Coeffs that does not make the division raise.  A
\* nan slope makes every coefficient nan; an infinite slope gives the finite
\* cosine and sine of +-pi/2.
p1CoeffsFromP2x0y0(p2Coeffs, x0, y0) ==
    LET mP1 == NpDivide(p2Coeffs[1], p2Coeffs[3])
        cosTheta == CosArctan(mP1)
        sinTheta == SinArctan(mP1)
        deltaP1 == XSub(XNeg(XMul(cosTheta, x0)), XMul(sinTheta, y0))
    IN  IF mP1 = NaN THEN <<NaN, NaN, NaN, NaN>>
        ELSE <<cosTheta, XSub(sinTheta, cosTheta), XNeg(sinTheta), deltaP1>>

\* for coeff in p2Coeffs[:-1]: p2Norm += coeff**2          (lines 1314-1316)
RECURSIVE SumSquares(_, _)
SumSquares(coeffs, n) ==
    IF n = 0 THEN XZero ELSE XAdd(SumSquares(coeffs, n - 1), XSq(coeffs[n]))

\* A variant that lets the constant term enter the norm.
P2NormAllTerms(p2Coeffs) == Len(p2Coeffs)

P2NormTerms(p2Coeffs) == Len(p2Coeffs) - 1

\* [-m/scaleFact, (m + 1.0)/scaleFact, -1.0/scaleFact, -b/scaleFact]
\*                                                               (line 1312)
P2Unscaled(m, b, scaleFact) ==
    <<NpDivide(NpNeg(m), scaleFact), NpDivide(XAdd(m, XOne), scaleFact),
      NpDivide(XNeg(XOne), scaleFact), NpDivide(NpNeg(b), scaleFact)>>

\* p2Coeffs /= p2Norm                                             (line 1317)
P2Scaled(p2Coeffs, p2Norm) ==
    <<NpDivide(p2Coeffs[1], p2Norm), NpDivide(p2Coeffs[2], p2Norm),
      NpDivide(p2Coeffs[3], p2Norm), NpDivide(p2Coeffs[4], p2Norm)>>

\* lines 1313-1317
P2Normalised(p2Coeffs) ==
    P2Scaled(p2Coeffs, XSqrt(SumSquares(p2Coeffs, P2NormTerms(p2Coeffs))))

\* lines 1321-1326
P2P1Struct(p2Coeffs, x0, y0) ==
    [p2Coeffs |-> p2Coeffs, p1Coeffs |-> p1CoeffsFromP2x0y0(p2Coeffs, x0, y0)]

\* lines 1311-1327
p2p1CoeffsFromLinearFit(m, b, x0, y0) ==
    P2P1Struct(P2Normalised(P2Unscaled(m, b, XSqrt(XAdd(XSq(m), XOne)))),
               x0, y0)

\* A variant undoing only the first normalisation, sqrt(m^2 + 1).
InterceptScaleFirstPass(mP1) ==
    IF mP1.c[2] = 0 THEN (IF mP1.c[1] = 0 THEN NaN ELSE PosInf)
    ELSE XSqrt(XAdd(XSq(mP1), XOne))

\* np.sqrt(mP1**2 + (mP1 + 1.0)**2 + 1.0)                       (line 1350)
\* An infinite mP1 gives inf, a nan mP1 gives nan.
InterceptScale(mP1) ==
    IF mP1.c[2] = 0 THEN (IF mP1.c[1] = 0 THEN NaN ELSE PosInf)
    ELSE XSqrt(XAdd(XAdd(XSq(mP1), XSq(XAdd(mP1, XOne))), XOne))

\* lines 1349-1354, for p2Coeffs that does not make the division raise.
lineFromP2Coeffs(p2Coeffs) ==
    LET mP1 == NpDivide(p2Coeffs[1], p2Coeffs[3])
        scale == InterceptScale(mP1)
    IN  [mP1 |-> mP1,
         bP1 |-> IF XIsFinite(scale) THEN XMul(XNeg(p2Coeffs[4]), scale)
                 ELSE TimesNonFinite(XNeg(p2Coeffs[4]), scale)]

\* A variant in which the root-finder makes no progress from its seed [1, 1].
fsolveSeed(a1, b1, c1, a2, b2, c2) == <<XOne, XOne>>

\* scipy.optimize.fsolve on the two linear equations of func2 (lines 1388-
\* 1392), a1*x + b1*y + c1 = 0 and a2*x + b2*y + c2 = 0: the root of the
\* system (unique: its determinant -(cos + m*sin) is never 0), by Cramer's
\* rule.  The solver's tolerance is not modelled.
fsolveLinear(a1, b1, c1, a2, b2, c2) ==
    LET det == XSub(XMul(a1, b2), XMul(a2, b1))
    IN  <<XDiv(XSub(XMul(b1, c2), XMul(b2, c1)), det),
          XDiv(XSub(XMul(a2, c1), XMul(a1, c2)), det)>>

\* A variant without the sign change.
Inverse(mP1) == NpDivide(XOne, mP1)

\* -1.0/mP1 (line 1393) for a numpy float mP1: a zero slope gives, with a
\* warning, -inf for +0.0 and +inf for -0.0.
NegInverse(mP1) == NpDivide(XNeg(XOne), mP1)

\* a*b and a - b for floats of which b may be infinite or nan: an infinity
\* times 0 is nan, a finite number minus an infinity the opposite infinity.
NpTimes(a, b) == IF XIsFinite(b) THEN XMul(a, b) ELSE TimesNonFinite(a, b)
NpMinus(a, b) == IF XIsFinite(b) THEN XSub(a, b) ELSE NpNeg(b)

\* lines 1393-1402: mP2, bP2 and the struct, from the P1 line and the root.
P2LineStruct(mP1, bP1, x0y0, mP2) ==
    [raised |-> "none", mP2 |-> mP2,
     bP2 |-> NpMinus(x0y0[2], NpTimes(x0y0[1], mP2)),
     mP1 |-> mP1, bP1 |-> bP1, x0 |-> x0y0[1], y0 |-> x0y0[2]]

\* lines 1385-1392: the root of func2 for the P1 line and the P1 offset.
P1Origin(mP1, bP1, d) ==
    fsolveLinear(CosArctan(mP1), SinArctan(mP1), d, mP1, XNeg(XOne), bP1)

\* lines 1381-1402 given the P1 line.  -1.0/mP1 raises for a zero mP1 that
\* is a Python float.
LinesFromP1Line(p1Line, p1Coeffs, numpy) ==
    IF DivisionRaises(p1Line.mP1, numpy) THEN [raised |-> "ZeroDivisionError"]
    ELSE P2LineStruct(p1Line.mP1, p1Line.bP1,
                      P1Origin(p1Line.mP1, p1Line.bP1, p1Coeffs[4]),
                      NegInverse(p1Line.mP1))

\* lines 1381-1402, for p2Coeffs[2] # 0.  numpy tells whether p2Coeffs holds
\* numpy floats (an array, as p2p1CoeffsFromLinearFit returns) or Python
\* floats (a list); mP1 is of the same kind.
linesFromP2P1Coeffs(p2Coeffs, p1Coeffs, numpy) ==
    LinesFromP1Line(lineFromP2Coeffs(p2Coeffs), p1Coeffs, numpy)

\* Slopes, intercepts and origins offered by the caller.
SlopeVals == {Rat(n, d) : n \in (0 - MaxNum)..MaxNum, d \in 1..2}
InterceptVals == {Rat(n, 2) : n \in (0 - MaxNum)..MaxNum}
CoordVals == (0 - MaxCoord)..MaxCoord
\* Components p2Coeffs[0] and p2Coeffs[2] of the P2 vectors handed directly
\* to the routines: floats, the zero of either sign.
P2CoeffVals == {XInt(c) : c \in (0 - MaxNum)..MaxNum} \cup {NegZero}

(***************************************************************************)
(* getEups and andCatalog (utils.py 979-1005).  An Eups handle is modelled *)
(* by the ordinal of its construction, 0 standing for None.  The external  *)
(* eups.setup(product, version) is modelled as setting the version up.     *)
(***************************************************************************)
\* A variant constructing a handle on every call.
EupsAlwaysBuilt(global, built) == [handle |-> built + 1, built |-> built + 1]

\* if not _eups: _eups = Eups(); return _eups               (lines 992-994)
\* The handle stored in the global after the call, and the handles built.
EupsHandle(global, built) ==
    IF global = 0 THEN [handle |-> built + 1, built |-> built + 1]
    ELSE [handle |-> global, built |-> built]

\* A variant restoring the version only when the block returns.
RestoredOnReturn(frame, setup, raising) == IF raising THEN setup ELSE frame.current

\* finally: eups.setup("astrometry_net_data", current)     (lines 1004-1005)
\* The version set up once the block of frame is left, from the version set
\* up when it is left, returning or raising.
RestoredVersion(frame, setup, raising) == frame.current

\* The versions of astrometry_net_data a caller asks for.
Versions == {"v1", "v2"}

(***************************************************************************)
(* Source catalogs (utils.py 47-83, 716-879).  An afw SourceCatalog is     *)
(* modelled by its schema, the set of its column names, and the sequence   *)
(* of its rows, each a record with one field per column.                   *)
(***************************************************************************)
\* catalog[name]: the column as an array over the rows.
Column(catalog, name) == [i \in 1..Len(catalog.rows) |-> catalog.rows[i][name]]

\* newCatalog.extend(catalog, mapper) followed by row.set(key, column[i]) on
\* the output schema of a mapper with every field of the catalog plus the
\* field name: the rows in their order, every column carried over.
WithColumn(catalog, name, column) ==
    [schema |-> catalog.schema \cup {name},
     rows |-> [i \in 1..Len(catalog.rows) |->
                  [f \in catalog.schema \cup {name} |->
                      IF f = name THEN column[i] ELSE catalog.rows[i][f]]]]

\* The columns of a coadd source catalog that makeBadArray looks for and may
\* not find.
OptionalColumns ==
    {"detect_isPatchInner", "detect_isTractInner", "merge_peak_sky",
     "base_ClassificationExtendedness_value"}
\* The flag column a caller lists.
FlagColumn == "base_PixelFlags_flag_bad"

\* A source that no criterion rejects, and the changes to it that matter.
GoodRow ==
    [id |-> 1, deblend_nChild |-> 0, merge_peak_sky |-> FALSE,
     detect_isPatchInner |-> TRUE, detect_isTractInner |-> TRUE,
     base_ClassificationExtendedness_value |-> Rat(1, 2),
     base_PixelFlags_flag_bad |-> FALSE]
RowVals ==
    {GoodRow,
     [GoodRow EXCEPT !.deblend_nChild = 2],
     [GoodRow EXCEPT !.merge_peak_sky = TRUE],
     [GoodRow EXCEPT !.detect_isPatchInner = FALSE],
     [GoodRow EXCEPT !.detect_isTractInner = FALSE],
     [GoodRow EXCEPT !.base_ClassificationExtendedness_value = Rat(3, 5)],
     [GoodRow EXCEPT !.base_PixelFlags_flag_bad = TRUE]}

\* The catalog of the given rows with the given optional columns.
Catalog(rows, optional) ==
    LET schema == {"id", "deblend_nChild", FlagColumn} \cup optional
    IN  [schema |-> schema,
         rows |-> [i \in 1..Len(rows) |-> [f \in schema |-> rows[i][f]]]]

\* for flag in flagList: bad |= catalog[flag]              (lines 762-763)
RECURSIVE OrFlags(_, _, _, _)
OrFlags(bad, catalog, flagList, k) ==
    IF k > Len(flagList) THEN bad
    ELSE OrFlags([i \in 1..Len(bad) |-> bad[i] \/ Column(catalog, flagList[k])[i]],
                 catalog, flagList, k + 1)

\* A variant that rejects sources outside the inner patch whatever
\* patchInnerOnly says.
makeBadArrayAlwaysInner(catalog, flagList, onlyReadStars, patchInnerOnly, tractInnerOnly) ==
    LET n == Len(catalog.rows)
        bad1 == IF "detect_isPatchInner" \in catalog.schema
                THEN [i \in 1..n |-> ~Column(catalog, "detect_isPatchInner")[i]]
                ELSE [i \in 1..n |-> FALSE]
        bad3 == [i \in 1..n |-> bad1[i] \/ Column(catalog, "deblend_nChild")[i] > 0]
    IN  [bad |-> OrFlags(bad3, catalog, flagList, 1), catalog |-> catalog]

\* lines 754-766.  The result: the array returned and the catalog as the
\* call leaves it.
makeBadArray(catalog, flagList, onlyReadStars, patchInnerOnly, tractInnerOnly) ==
    LET n == Len(catalog.rows)
        bad0 == [i \in 1..n |-> FALSE]
        bad1 == IF "detect_isPatchInner" \in catalog.schema /\ patchInnerOnly
                THEN [i \in 1..n |-> bad0[i] \/ ~Column(catalog, "detect_isPatchInner")[i]]
                ELSE bad0
        bad2 == IF "detect_isTractInner" \in catalog.schema /\ tractInnerOnly
                THEN [i \in 1..n |-> bad1[i] \/ ~Column(catalog, "detect_isTractInner")[i]]
                ELSE bad1
        bad3 == [i \in 1..n |-> bad2[i] \/ Column(catalog, "deblend_nChild")[i] > 0]
        bad4 == IF "merge_peak_sky" \in catalog.schema
                THEN [i \in 1..n |-> bad3[i] \/ Column(catalog, "merge_peak_sky")[i]]
                ELSE bad3
        bad5 == OrFlags(bad4, catalog, flagList, 1)
        bad6 == IF onlyReadStars
                   /\ "base_ClassificationExtendedness_value" \in catalog.schema
                THEN [i \in 1..n |-> bad5[i] \/
                        RLt(Rat(1, 2),
                            Column(catalog, "base_ClassificationExtendedness_value")[i])]
                ELSE bad5
    IN  [bad |-> bad6, catalog |-> catalog]

\* The keyword arguments of makeBadArray: left out (the defaults of line
\* 716) or given.
OptionVals ==
    {[given |-> FALSE, onlyReadStars |-> FALSE, patchInnerOnly |-> TRUE,
      tractInnerOnly |-> FALSE]} \cup
    {[given |-> TRUE, onlyReadStars |-> o, patchInnerOnly |-> p, tractInnerOnly |-> t] :
        o \in BOOLEAN, p \in BOOLEAN, t \in BOOLEAN}
FlagListVals == {<<>>, <<FlagColumn>>}

\* bool(v) of a numpy array element, booleans and integers being written as
\* the integers 0 (False), 1 (True), 2, ...
PyBool(v) == v # 0

\* lines 794-807.  catalog[0] (line 797) raises IndexError on a catalog with
\* no rows.  The result: the exception raised, the arguments as the call
\* leaves them and, when it returns, the catalog returned.
addFlag(catalog, badArray, flagName) ==
    IF Len(catalog.rows) # Len(badArray)
    THEN [raised |-> "RuntimeError", catalog |-> catalog, badArray |-> badArray]
    ELSE IF Len(catalog.rows) = 0
    THEN [raised |-> "IndexError", catalog |-> catalog, badArray |-> badArray]
    ELSE [raised |-> "none", catalog |-> catalog, badArray |-> badArray,
          newCatalog |-> WithColumn(catalog, flagName,
                                    [i \in 1..Len(badArray) |-> PyBool(badArray[i])])]

\* The plain catalogs handed to addFlag, addIntFloatOrStrColumn and
\* writeParquet, with 0..MaxRows rows.
PlainCatalogVals ==
    {Catalog(rows, {}) :
        rows \in SeqsUpTo({GoodRow, [GoodRow EXCEPT !.deblend_nChild = 2]}, MaxRows)}
BadArrayVals == SeqsUpTo({0, 1, 2}, MaxRows)

\* path.endswith(suffix), a string being the sequence of its characters.
EndsWith(path, suffix) ==
    /\ Len(path) >= Len(suffix)
    /\ SubSeq(path, Len(path) - Len(suffix) + 1, Len(path)) = suffix

\* A variant that checks the path before it looks for the writer.
writeParquetPathFirst(fastparquet, table, path, badArray) ==
    IF ~EndsWith(path, <<".", "p", "a", "r", "q">>)
    THEN [raised |-> "ValueError", flagged |-> 0, converted |-> FALSE, written |-> <<>>]
    ELSE [raised |-> "none", flagged |-> 0, converted |-> FALSE, written |-> <<>>]

\* lines 71-83.  fastparquet: the module was imported (lines 10-15), else it
\* is None.  badArray is [given |-> FALSE] (None) or [given |-> TRUE, v |->
\* array].  The result: the exception raised, the addFlag calls made, whether
\* the table was converted to a data frame, and the files written.
writeParquet(fastparquet, table, path, badArray) ==
    IF ~fastparquet
    THEN [raised |-> "none", flagged |-> 0, converted |-> FALSE, written |-> <<>>]
    ELSE IF ~EndsWith(path, <<".", "p", "a", "r", "q">>)
    THEN [raised |-> "ValueError", flagged |-> 0, converted |-> FALSE, written |-> <<>>]
    ELSE LET flag == addFlag(table, badArray.v, "qaBad_flag")
         IN  IF ~badArray.given
             THEN [raised |-> "none", flagged |-> 0, converted |-> TRUE,
                   written |-> <<[path |-> path, table |-> table]>>]
             ELSE IF flag.raised # "none"
             THEN [raised |-> flag.raised, flagged |-> 1, converted |-> FALSE,
                   written |-> <<>>]
             ELSE [raised |-> "none", flagged |-> 1, converted |-> TRUE,
                   written |-> <<[path |-> path, table |-> flag.newCatalog]>>]

PathVals ==
    {<<"q", ".", "p", "a", "r", "q">>, <<"q", ".", "c", "s", "v">>,
     <<"p", "a", "r", "q">>}
OptionalBadArrayVals ==
    {[given |-> FALSE, v |-> <<>>]} \cup {[given |-> TRUE, v |-> b] : b \in BadArrayVals}

\* A Python value is written [type |-> the name of type(value), val |-> its
\* text].  numpy.float64 is a subclass of float, numpy.str_ one of str, bool
\* one of int; numpy.int64 is not a subclass of int.
IsExactlyInt(value) == value.type = "int"
IsFloat(value) == value.type \in {"float", "numpy.float64"}
IsExactlyStr(value) == value.type = "str"

\* len(max(values, key=len))                                       (line 860)
RECURSIVE MaxLength(_, _)
MaxLength(values, n) ==
    IF n = 0 THEN 0
    ELSE LET rest == MaxLength(values, n - 1)
             here == Len(values[n].val)
         IN  IF here > rest THEN here ELSE rest

\* lines 854-865: the field type and size chosen for the values, or the
\* error raised.
FieldTypeFor(values) ==
    IF \A k \in 1..Len(values) : IsExactlyInt(values[k])
    THEN [raised |-> "none", fieldType |-> "I", size |-> 0]
    ELSE IF \A k \in 1..Len(values) : IsFloat(values[k])
    THEN [raised |-> "none", fieldType |-> "D", size |-> 0]
    ELSE IF \A k \in 1..Len(values) : IsExactlyStr(values[k])
    THEN [raised |-> "none", fieldType |-> "str", size |-> MaxLength(values, Len(values))]
    ELSE [raised |-> "RuntimeError", fieldType |-> "none", size |-> 0]

\* lines 837-879.  values is [list |-> TRUE, v |-> the elements] for a list
\* or numpy array and [list |-> FALSE, v |-> <<the value>>] for a scalar.
\* catalog[0] (line 850) raises IndexError on a catalog with no rows.  The
\* size of a field that is not a string (None in the source) is written 0.
addIntFloatOrStrColumn(catalog, values, fieldName) ==
    IF ~values.list /\ values.v[1].type \notin {"int", "float", "str"}
    THEN [raised |-> "RuntimeError", catalog |-> catalog]
    ELSE IF Len(values.v) \notin {Len(catalog.rows), 1}
    THEN [raised |-> "RuntimeError", catalog |-> catalog]
    ELSE IF Len(catalog.rows) = 0
    THEN [raised |-> "IndexError", catalog |-> catalog]
    ELSE LET field == FieldTypeFor(values.v)
         IN  IF field.raised # "none"
             THEN [raised |-> field.raised, catalog |-> catalog]
             ELSE [raised |-> "none", catalog |-> catalog,
                   fieldType |-> field.fieldType, size |-> field.size,
                   newCatalog |->
                       WithColumn(catalog, fieldName,
                           [i \in 1..Len(catalog.rows) |->
                               IF Len(values.v) = 1 THEN values.v[1]
                               ELSE values.v[i]])]

\* The values offered, as list elements or as scalars.
PyVals ==
    {[type |-> "int", val |-> "1"], [type |-> "bool", val |-> "True"],
     [type |-> "float", val |-> "1.5"], [type |-> "numpy.float64", val |-> "2.5"],
     [type |-> "numpy.int64", val |-> "3"], [type |-> "str", val |-> "a"],
     [type |-> "str", val |-> "abc"], [type |-> "numpy.str_", val |-> "ab"],
     [type |-> "NoneType", val |-> "None"]}
ColumnValues ==
    {[list |-> TRUE, v |-> v] : v \in SeqsUpTo(PyVals, MaxRows)} \cup
    {[list |-> FALSE, v |-> <<x>>] : x \in PyVals}

(***************************************************************************)
(* getRepoInfo.  Optional strings are typed values; dataId is the set of   *)
(* its keys; butlerLog lists the accesses to the butler in order,          *)
(* "getButler" first and then the dataset name of every butler.get.  Every *)
(* butler.get is taken to succeed.                                         *)
(***************************************************************************)
None == [type |-> "NoneType", val |-> "None"]
Str(s) == [type |-> "str", val |-> s]
\* Python truthiness of None or a str.
Truthy(v) == v.type # "NoneType" /\ v.val # ""

\* coaddName and not coaddDataset or not coaddName and coaddDataset
CoaddArgsMismatch(coaddName, coaddDataset) ==
    \/ Truthy(coaddName) /\ ~Truthy(coaddDataset)
    \/ ~Truthy(coaddName) /\ Truthy(coaddDataset)

CcdKeyList == <<"ccd", "sensor", "camcol", "detector">>
\* findCcdKey: TRUE when one of the known keys is in dataId.
findCcdKey(dataId) == \E k \in 1..Len(CcdKeyList) : CcdKeyList[k] \in dataId

\* checkHscStack: the HSCPIPE_VERSION of the metadata, None without one.
checkHscStack(metadata) ==
    IF "HSCPIPE_VERSION" \in DOMAIN metadata
    THEN Str(metadata.HSCPIPE_VERSION)
    ELSE None

\* metadata is what butler.get(metaStr, dataId) returns.  hscRun is tested
\* by truthiness at line 1085 and against None at line 1091.
getRepoInfo(dataId, coaddName, coaddDataset, doApplyUberCal, metadata) ==
    LET isCoadd == "patch" \in dataId
        hscRun == checkHscStack(metadata)
        start == <<"getButler", "camera">>
        metaStr == IF coaddName.type # "NoneType"
                   THEN coaddName.val \o coaddDataset.val \o "_md"
                   ELSE "calexp_md"
        withMeta == Append(start, metaStr)
        withSkymap == IF coaddName.type # "NoneType"
                      THEN Append(withMeta, coaddName.val \o "Coadd_skyMap")
                      ELSE withMeta
        coaddImageName == IF Truthy(hscRun) THEN "Coadd_calexp_hsc"
                          ELSE "Coadd_calexp"
        dataset == IF doApplyUberCal
                   THEN (IF hscRun.type # "NoneType" THEN "wcs_hsc"
                         ELSE "jointcal_wcs")
                   ELSE IF isCoadd THEN coaddName.val \o coaddDataset.val
                   ELSE "src"
    IN  IF CoaddArgsMismatch(coaddName, coaddDataset)
        THEN [raised |-> "RuntimeError", butlerLog |-> <<>>]
        ELSE IF ~isCoadd /\ ~findCcdKey(dataId)
        THEN [raised |-> "RuntimeError", butlerLog |-> start]
        ELSE IF coaddName.type # "NoneType" /\ coaddDataset.type = "NoneType"
        THEN [raised |-> "TypeError", butlerLog |-> start]
        ELSE IF isCoadd /\ coaddName.type = "NoneType"
        THEN [raised |-> "TypeError", butlerLog |-> withSkymap]
        ELSE [raised |-> "none",
              butlerLog |-> IF isCoadd
                            THEN Append(withSkymap, coaddName.val \o coaddImageName)
                            ELSE withSkymap,
              isCoadd |-> isCoadd,
              dataset |-> dataset]

DataIdVals ==
    {{"filter", "tract", "patch"}, {"filter", "visit", "ccd"},
     {"filter", "visit"}}
CoaddNameVals == {None, Str(""), Str("deep")}
CoaddDatasetVals == {None, Str(""), Str("Coadd_meas")}
MetadataVals ==
    {[PROCESSING |-> "lsst"], [HSCPIPE_VERSION |-> ""],
     [HSCPIPE_VERSION |-> "8.0"]}

(***************************************************************************)
(* setAliasMaps.  A schema is the set of its field names and an alias map  *)
(* a set of <<alias, target>> pairs with one target per alias.  A dict or  *)
(* config Dict is its items in insertion order, <<newName, oldName>>;      *)
(* setLog lists the aliasMap.set calls in order.                           *)
(***************************************************************************)
MaxDicts == 2
MaxItems == 2

\* aliasMap.set(alias, target): a later target replaces an earlier one.
SetAlias(aliasMap, alias, target) ==
    {p \in aliasMap : p[1] # alias} \cup {<<alias, target>>}

IsDictLike(obj) == obj.kind \in {"dict", "Dict"}

\* Iterating a list gives its elements, iterating a config Dict its keys.
Elements(aliasDictList) ==
    IF aliasDictList.kind = "dict" THEN <<aliasDictList>>
    ELSE IF aliasDictList.kind = "list" THEN aliasDictList.elems
    ELSE [k \in 1..Len(aliasDictList.items) |->
             [kind |-> "str", val |-> aliasDictList.items[k][1]]]

OldNameInSchemaNoPrefix(schema, prefix, oldName) == oldName \in schema
\* prefix + oldName in catalog.schema
OldNameInSchema(schema, prefix, oldName) == (prefix \o oldName) \in schema

\* The loop over one dict's items from position k on.
RECURSIVE SetFromDict(_, _, _, _, _)
SetFromDict(st, schema, prefix, items, k) ==
    IF k > Len(items) THEN st
    ELSE LET newName == items[k][1]
             oldName == items[k][2]
         IN  SetFromDict(
                 IF OldNameInSchema(schema, prefix, oldName)
                 THEN [aliasMap |-> SetAlias(st.aliasMap, prefix \o newName,
                                             prefix \o oldName),
                       setLog |-> Append(st.setLog, <<prefix \o newName,
                                                     prefix \o oldName>>)]
                 ELSE st,
                 schema, prefix, items, k + 1)

\* The loop over the dicts from position d on.
RECURSIVE SetFromDicts(_, _, _, _, _)
SetFromDicts(st, schema, prefix, dicts, d) ==
    IF d > Len(dicts) THEN st
    ELSE SetFromDicts(SetFromDict(st, schema, prefix, dicts[d].items, 1),
                      schema, prefix, dicts, d + 1)

setAliasMaps(catalog, aliasDictList, prefix) ==
    LET dicts == Elements(aliasDictList)
    IN  IF \E d \in 1..Len(dicts) : ~IsDictLike(dicts[d])
        THEN [raised |-> "RuntimeError", catalog |-> catalog, setLog |-> <<>>]
        ELSE LET st == SetFromDicts([aliasMap |-> catalog.aliasMap,
                                     setLog |-> <<>>],
                                    catalog.schema, prefix, dicts, 1)
             IN  [raised |-> "none",
                  catalog |-> [catalog EXCEPT !.aliasMap = st.aliasMap],
                  setLog |-> st.setLog]

NewNames == {"n", "m"}
OldNames == {"x", "y"}
ItemVals ==
    {it \in SeqsUpTo(NewNames \X OldNames, MaxItems) :
        \A i, j \in 1..Len(it) : i # j => it[i][1] # it[j][1]}
DictVals == {[kind |-> "dict", items |-> it] : it \in ItemVals}
ConfigDictVals ==
    {[kind |-> "Dict", items |-> it] : it \in {<<>>, <<<<"n", "x">>>>}}
ElementVals ==
    DictVals \cup ConfigDictVals \cup {[kind |-> "str", val |-> "n"]}
AliasDictListVals ==
    DictVals \cup ConfigDictVals \cup
    {[kind |-> "list", elems |-> l] : l \in SeqsUpTo(ElementVals, MaxDicts)}
AliasCatalogVals ==
    {[schema |-> sc, aliasMap |-> am] :
        sc \in {{}, {"x"}, {"x", "src_x", "src_y"}},
        am \in {{}, {<<"n", "x">>}}}
PrefixVals == {"", "src_"}

(***************************************************************************)
(* backoutApCorr.  Here a catalog is the set of its schema names and, for  *)
(* each, the column as a sequence of numbers, one per row.                 *)
(***************************************************************************)
\* sub in s, for Python strings.
Contains(s, sub) ==
    \E i \in 1..(Len(s) - Len(sub) + 1) : SubSeq(s, i, i + Len(sub) - 1) = sub

\* k[:-5] + "_apCorr"
ApCorrName(k) == SubSeq(k, 1, Len(k) - 5) \o "_apCorr"

\* The test that selects the columns to divide.
IsCorrectedFlux(names, k) ==
    /\ Contains(k, "_instFlux")
    /\ ApCorrName(k) \in names
    /\ ~Contains(k, "_apCorr")

\* catalog[k] /= catalog[k[:-5] + "_apCorr"] for every selected k.  The
\* divisor columns contain "_apCorr" and so are never divided themselves.
backoutApCorr(catalog) ==
    [raised |-> "none",
     catalog |->
        [catalog EXCEPT !.columns =
            [k \in catalog.names |->
                IF IsCorrectedFlux(catalog.names, k)
                THEN [i \in 1..Len(catalog.columns[k]) |->
                         NpDivide(catalog.columns[k][i],
                                  catalog.columns[ApCorrName(k)][i])]
                ELSE catalog.columns[k]]]]

FluxNamePool ==
    {"a_instFlux", "a_apCorr", "a_ins_apCorr", "a_instFluxErr",
     "a_instF_apCorr", "b_instFlux"}
\* Column values by row: fluxes 6, 12, ...; corrections 2, 3, ... or
\* 0, 1, ... .
FluxCell(k, i, zeroCorr) ==
    IF Contains(k, "_apCorr")
    THEN (IF zeroCorr THEN XInt(i - 1) ELSE XInt(i + 1))
    ELSE XInt(6 * i)
FluxCatalogVals ==
    {[names |-> names,
      columns |-> [k \in names |-> [i \in 1..n |-> FluxCell(k, i, z)]]] :
        names \in SUBSET FluxNamePool, n \in 0..MaxRows, z \in BOOLEAN}

(***************************************************************************)
(* checkPatchOverlap.  The tract is a grid of NumPatchesX by NumPatchesY   *)
(* patches of PatchInnerSize pixels a side; a patch's outer box is its     *)
(* inner box grown by the tract's patch border and clipped to the tract.   *)
(***************************************************************************)
MaxPatches == 3
NumPatchesX == 3
NumPatchesY == 2
PatchInnerSize == 4
MaxBorder == 1

\* int(s) for a string of decimal digits.
RECURSIVE ParseNat(_)
ParseNat(s) ==
    IF Len(s) = 0 THEN 0
    ELSE 10 * ParseNat(SubSeq(s, 1, Len(s) - 1))
         + ((CHOOSE d \in 1..10 : Digits[d] = SubSeq(s, Len(s), Len(s))) - 1)

\* [int(val) for val in patch.split(",")] for a name "x,y".
PatchIndex(patch) ==
    LET c == CHOOSE i \in 1..Len(patch) : SubSeq(patch, i, i) = ","
    IN  <<ParseNat(SubSeq(patch, 1, c - 1)),
          ParseNat(SubSeq(patch, c + 1, Len(patch)))>>

Max(a, b) == IF a > b THEN a ELSE b
Min(a, b) == IF a < b THEN a ELSE b

\* tractInfo.getPatchInfo(index).getOuterBBox()
OuterBBox(tractInfo, index) ==
    [minX |-> Max(index[1] * PatchInnerSize - tractInfo.border, 0),
     maxX |-> Min((index[1] + 1) * PatchInnerSize - 1 + tractInfo.border,
                  NumPatchesX * PatchInnerSize - 1),
     minY |-> Max(index[2] * PatchInnerSize - tractInfo.border, 0),
     maxY |-> Min((index[2] + 1) * PatchInnerSize - 1 + tractInfo.border,
                  NumPatchesY * PatchInnerSize - 1)]

\* Box2I.overlaps
Overlaps(a, b) ==
    /\ a.minX <= b.maxX /\ b.minX <= a.maxX
    /\ a.minY <= b.maxY /\ b.minY <= a.maxY

PatchBBox(tractInfo, patch) == OuterBBox(tractInfo, PatchIndex(patch))

\* The inner loop from position j on: TRUE when it breaks on an overlap.
RECURSIVE InnerLoop(_, _, _, _)
InnerLoop(patchList, tractInfo, i, j) ==
    IF j > Len(patchList) THEN FALSE
    ELSE IF /\ patchList[j] # patchList[i]
            /\ j > i
            /\ Overlaps(PatchBBox(tractInfo, patchList[i]),
                        PatchBBox(tractInfo, patchList[j]))
    THEN TRUE
    ELSE InnerLoop(patchList, tractInfo, i, j + 1)

\* The outer loop from position i on; overlappingPatches is the value the
\* variable holds, "unbound" before its first assignment.
RECURSIVE OuterLoop(_, _, _, _)
OuterLoop(patchList, tractInfo, i, overlappingPatches) ==
    IF i > Len(patchList) THEN overlappingPatches
    ELSE IF InnerLoop(patchList, tractInfo, i, 1) THEN "True"
    ELSE OuterLoop(patchList, tractInfo, i + 1, "False")

checkPatchOverlap(patchList, tractInfo) ==
    LET overlappingPatches == OuterLoop(patchList, tractInfo, 1, "unbound")
    IN  IF overlappingPatches = "unbound"
        THEN [raised |-> "UnboundLocalError"]
        ELSE [raised |-> "none", value |-> overlappingPatches = "True"]

PatchNames == {"0,0", "1,0", "2,0", "00,0", "1,1"}
PatchListVals == SeqsUpTo(PatchNames, MaxPatches)
TractInfoVals == {[border |-> b] : b \in 0..MaxBorder}

(***************************************************************************)
(* Enforcer.  requireGreater and requireLess are dicts of dicts, each kept *)
(* in iteration order as a sequence of <<label, <<ss, limit>>, ...>>.  A   *)
(* statistic is a float: a number or nan.  warnings lists the log.warn     *)
(* calls and examined the (label, ss) entries whose value was read.        *)
(***************************************************************************)
Num(n) == [nan |-> FALSE, v |-> n]
NanValue == [nan |-> TRUE, v |-> 0]

ViolatesMinimumStrict(value, limit) == ~value.nan /\ value.v < limit
\* value <= limit, False for nan
ViolatesMinimum(value, limit) == ~value.nan /\ value.v <= limit
\* value >= limit, False for nan
ViolatesMaximum(value, limit) == ~value.nan /\ value.v >= limit

\* The entries of a dict of dicts in iteration order, <<label, ss, limit>>.
RECURSIVE Entries(_)
Entries(require) ==
    IF require = <<>> THEN <<>>
    ELSE [k \in 1..Len(require[1][2]) |->
             <<require[1][1], require[1][2][k][1], require[1][2][k][2]>>]
         \o Entries(Tail(require))

\* One of the two loops from entry k on; st.raised stops everything.
RECURSIVE EnforceLoop(_, _, _, _, _, _)
EnforceLoop(st, entries, k, kind, stats, doRaise) ==
    IF k > Len(entries) \/ st.raised # "none" THEN st
    ELSE LET label == entries[k][1]
             ss == entries[k][2]
             limit == entries[k][3]
             value == stats[label][ss]
             violated == IF kind = "minimum"
                         THEN ViolatesMinimum(value, limit)
                         ELSE ViolatesMaximum(value, limit)
             text == [kind |-> kind, ss |-> ss, value |-> value,
                      limit |-> limit]
             seen == Append(st.examined, <<kind, label, ss>>)
         IN  EnforceLoop(
                 IF violated
                 THEN [raised |-> IF doRaise THEN "AssertionError" ELSE "none",
                       warnings |-> Append(st.warnings, text),
                       examined |-> seen]
                 ELSE [st EXCEPT !.examined = seen],
                 entries, k + 1, kind, stats, doRaise)

\* Enforcer(requireGreater, requireLess, doRaise)(stats, ...)
EnforcerCall(requireGreater, requireLess, doRaise, stats) ==
    LET afterGreater ==
            EnforceLoop([raised |-> "none", warnings |-> <<>>,
                         examined |-> <<>>],
                        Entries(requireGreater), 1, "minimum", stats, doRaise)
    IN  EnforceLoop(afterGreater, Entries(requireLess), 1, "maximum", stats,
                    doRaise)

RequireVals(limit) ==
    {<<>>,
     <<<<"star", <<<<"mean", limit>>, <<"stdev", limit>>>>>>>>,
     <<<<"star", <<<<"stdev", limit>>, <<"mean", limit>>>>>>>>,
     <<<<"star", <<<<"mean", limit>>>>>>, <<"galaxy", <<<<"mean", limit>>>>>>>>,
     <<<<"galaxy", <<<<"mean", limit>>>>>>, <<"star", <<<<"mean", limit>>>>>>>>}
StatVals == {Num(0), Num(1), Num(2), NanValue}
StatsVals ==
    {[label \in {"star", "galaxy"} |->
         [ss \in {"mean", "stdev"} |->
             IF label = "star" THEN (IF ss = "mean" THEN a ELSE b)
             ELSE c]] : a, b, c \in StatVals}

(***************************************************************************)
(* addFootprintNPix.  A source is its id and its footprint: hasFootprint   *)
(* is FALSE when getFootprint() gives None, so that getArea() fails.  A    *)
(* catalog is the sequence of its sources, fromCat one or NoCatalog.       *)
(***************************************************************************)
NoCatalog == [isNone |-> TRUE, rows |-> <<>>]
GivenCatalog(rows) == [isNone |-> FALSE, rows |-> rows]

\* The rows built from position k on; the exception of a failed getArea()
\* is raised again at once by the handler.
RECURSIVE FootprintRows(_, _, _, _)
FootprintRows(st, fromRows, toRows, k) ==
    IF k > Len(fromRows) \/ k > Len(toRows) \/ st.raised # "none" THEN st
    ELSE FootprintRows(
             IF ~fromRows[k].hasFootprint
             THEN [raised |-> "AttributeError"]
             ELSE [st EXCEPT !.newCatalog =
                      Append(@, [id |-> toRows[k].id,
                                 nPix |-> fromRows[k].area,
                                 flag |-> FALSE])],
             fromRows, toRows, k + 1)

addFootprintNPix(catalog, fromCat, prefix) ==
    IF Len(catalog) = 0 THEN [raised |-> "IndexError"]
    ELSE IF ~fromCat.isNone /\ Len(fromCat.rows) # 0
            /\ Len(fromCat.rows) # Len(catalog)
    THEN [raised |-> "TaskError"]
    ELSE FootprintRows([raised |-> "none",
                        fpName |-> prefix \o "base_Footprint_nPix",
                        newCatalog |-> <<>>],
                       IF fromCat.isNone THEN catalog ELSE fromCat.rows,
                       catalog, 1)

SourceVals ==
    {[id |-> 1, hasFootprint |-> TRUE, area |-> 5],
     [id |-> 2, hasFootprint |-> FALSE, area |-> 0],
     [id |-> 3, hasFootprint |-> TRUE, area |-> 0]}
SourceCatalogVals == SeqsUpTo(SourceVals, MaxRows)
FromCatVals == {NoCatalog} \cup {GivenCatalog(r) : r \in SourceCatalogVals}

(***************************************************************************)
(* The caller.                                                             *)
(***************************************************************************)
Init ==
    /\ pc = "idle"
    /\ call = [fn |-> "none"]
    /\ result = [raised |-> "none"]
    /\ eupsGlobal = 0
    /\ eupsBuilt = 0
    /\ setupVersion = "v1"
    /\ frames = <<>>
    /\ exc = "none"

\* The routines below are called outside andCatalog blocks, whose bodies are
\* abstract here.
AtTopLevel == frames = <<>> /\ exc = "none"

CallMakeEqnStr ==
    /\ pc = "idle"
    /\ AtTopLevel
    /\ \E varName \in VarNames, coeffList \in SeqsUpTo(CoeffVals, MaxLen),
          exponentList \in SeqsUpTo(BandVals, MaxLen) :
          /\ call' = [fn |-> "makeEqnStr", varName |-> varName,
                      coeffList |-> coeffList, exponentList |-> exponentList]
          /\ result' = makeEqnStr(varName, coeffList, exponentList)
    /\ pc' = "done"
    /\ UNCHANGED eupsVars

\* The caller takes the result (or handles the exception) and goes on.
Return ==
    /\ pc = "done"
    /\ pc' = "idle"
    /\ call' = [fn |-> "none"]
    /\ result' = [raised |-> "none"]
    /\ UNCHANGED eupsVars

\* The linear fit (m, b) and origin a call's coefficients were derived from.
FitArgs(m, b, x0, y0) == [m |-> XRat(m), b |-> XRat(b), x0 |-> XInt(x0), y0 |-> XInt(y0)]

\* The exception a call ends with.
Raised(e) == [raised |-> e]

\* p1CoeffsFromP2x0y0 on P2 coefficients that are Python floats (a list) or
\* numpy floats (an array): the division of line 1270 raises for a zero
\* p2Coeffs[2] of the first kind.  p2Coeffs[0] and p2Coeffs[2] range over
\* floats with the zero of either sign (+0.0 and -0.0).
CallP1CoeffsFromP2x0y0 ==
    /\ pc = "idle"
    /\ AtTopLevel
    /\ \E c0 \in P2CoeffVals, c1 \in {1}, c2 \in P2CoeffVals, c3 \in {0, 1},
          x0 \in CoordVals, y0 \in CoordVals, numpy \in BOOLEAN :
          LET p2Coeffs == <<c0, XInt(c1), c2, XInt(c3)>>
          IN  /\ call' = [fn |-> "p1CoeffsFromP2x0y0", p2Coeffs |-> p2Coeffs,
                          x0 |-> XInt(x0), y0 |-> XInt(y0), numpy |-> numpy]
              /\ result' = IF DivisionRaises(p2Coeffs[3], numpy)
                           THEN Raised("ZeroDivisionError")
                           ELSE [raised |-> "none",
                                 p1Coeffs |-> p1CoeffsFromP2x0y0(p2Coeffs, XInt(x0),
                                                                 XInt(y0))]
    /\ pc' = "done"
    /\ UNCHANGED eupsVars

CallP2p1CoeffsFromLinearFit ==
    /\ pc = "idle"
    /\ AtTopLevel
    /\ \E m \in SlopeVals, b \in InterceptVals, x0 \in CoordVals, y0 \in CoordVals :
          LET a == FitArgs(m, b, x0, y0)
          IN  /\ call' = [fn |-> "p2p1CoeffsFromLinearFit", fit |-> a]
              /\ result' = p2p1CoeffsFromLinearFit(a.m, a.b, a.x0, a.y0)
    /\ pc' = "done"
    /\ UNCHANGED eupsVars

\* The caller hands the P2 coefficients p2p1CoeffsFromLinearFit has just
\* returned to lineFromP2Coeffs.
CallLineFromP2Coeffs ==
    /\ pc = "done"
    /\ call.fn = "p2p1CoeffsFromLinearFit"
    /\ call' = [fn |-> "lineFromP2Coeffs", fit |-> call.fit,
                p2Coeffs |-> result.p2Coeffs]
    /\ result' = lineFromP2Coeffs(result.p2Coeffs)
    /\ pc' = "done"
    /\ UNCHANGED eupsVars

\* The caller hands the P2 and P1 coefficients p2p1CoeffsFromLinearFit has
\* just returned to linesFromP2P1Coeffs.
CallLinesFromP2P1Coeffs ==
    /\ pc = "done"
    /\ call.fn = "p2p1CoeffsFromLinearFit"
    /\ call' = [fn |-> "linesFromP2P1Coeffs", fit |-> call.fit,
                p2Coeffs |-> result.p2Coeffs, p1Coeffs |-> result.p1Coeffs]
    /\ result' = linesFromP2P1Coeffs(result.p2Coeffs, result.p1Coeffs, TRUE)
    /\ pc' = "done"
    /\ UNCHANGED eupsVars

\* lineFromP2Coeffs on P2 coefficients of the caller's own, Python or numpy
\* floats: the division of line 1349 raises for a zero p2Coeffs[2] of the
\* first kind.
CallLineFromP2CoeffsDirect ==
    /\ pc = "idle"
    /\ AtTopLevel
    /\ \E c0 \in P2CoeffVals, c1 \in {1}, c2 \in P2CoeffVals, c3 \in {0 - 1, 0, 1},
          numpy \in BOOLEAN :
          LET p2Coeffs == <<c0, XInt(c1), c2, XInt(c3)>>
          IN  /\ call' = [fn |-> "lineFromP2Coeffs", p2Coeffs |-> p2Coeffs,
                          numpy |-> numpy]
              /\ result' = IF DivisionRaises(p2Coeffs[3], numpy)
                           THEN Raised("ZeroDivisionError")
                           ELSE lineFromP2Coeffs(p2Coeffs)
    /\ pc' = "done"
    /\ UNCHANGED eupsVars

\* linesFromP2P1Coeffs on coefficients of the caller's own, Python or numpy
\* floats, with p2Coeffs[2] # 0.  The sum the root-finder's solution contains stays
\* within the numbers of the model when the P1 line has intercept 0
\* (p2Coeffs[3] = 0) or the P1 offset p1Coeffs[3] is 0.
CallLinesFromP2P1CoeffsDirect ==
    /\ pc = "idle"
    /\ AtTopLevel
    /\ \E c0 \in P2CoeffVals, c1 \in {1}, c2 \in P2CoeffVals,
          c3 \in {0 - 1, 0, 1}, d \in CoordVals, numpy \in BOOLEAN :
          /\ ~XIsZero(c2)
          /\ c3 = 0 \/ d = 0
          /\ LET p2Coeffs == <<c0, XInt(c1), c2, XInt(c3)>>
                 p1Coeffs == <<XZero, XZero, XZero, XInt(d)>>
             IN  /\ call' = [fn |-> "linesFromP2P1Coeffs", p2Coeffs |-> p2Coeffs,
                             p1Coeffs |-> p1Coeffs, numpy |-> numpy]
                 /\ result' = linesFromP2P1Coeffs(p2Coeffs, p1Coeffs, numpy)
    /\ pc' = "done"
    /\ UNCHANGED eupsVars

CallMakeBadArray ==
    /\ pc = "idle"
    /\ AtTopLevel
    /\ \E rows \in SeqsUpTo(RowVals, MaxRows), optional \in SUBSET OptionalColumns,
          flagList \in FlagListVals, opts \in OptionVals :
          LET catalog == Catalog(rows, optional)
          IN  /\ call' = [fn |-> "makeBadArray", catalog |-> catalog,
                          flagList |-> flagList, opts |-> opts]
              /\ result' = makeBadArray(catalog, flagList, opts.onlyReadStars,
                                        opts.patchInnerOnly, opts.tractInnerOnly)
    /\ pc' = "done"
    /\ UNCHANGED eupsVars

CallAddFlag ==
    /\ pc = "idle"
    /\ AtTopLevel
    /\ \E catalog \in PlainCatalogVals, badArray \in BadArrayVals :
          /\ call' = [fn |-> "addFlag", catalog |-> catalog, badArray |-> badArray,
                      flagName |-> "qaBad_flag"]
          /\ result' = addFlag(catalog, badArray, "qaBad_flag")
    /\ pc' = "done"
    /\ UNCHANGED eupsVars

\* writeParquet in a process where the import of fastparquet succeeded or
\* failed.
CallWriteParquet ==
    /\ pc = "idle"
    /\ AtTopLevel
    /\ \E fastparquet \in BOOLEAN, table \in PlainCatalogVals, path \in PathVals,
          badArray \in OptionalBadArrayVals :
          /\ call' = [fn |-> "writeParquet", fastparquet |-> fastparquet,
                      table |-> table, path |-> path, badArray |-> badArray]
          /\ result' = writeParquet(fastparquet, table, path, badArray)
    /\ pc' = "done"
    /\ UNCHANGED eupsVars

CallAddIntFloatOrStrColumn ==
    /\ pc = "idle"
    /\ AtTopLevel
    /\ \E catalog \in PlainCatalogVals, values \in ColumnValues :
          /\ call' = [fn |-> "addIntFloatOrStrColumn", catalog |-> catalog,
                      values |-> values, fieldName |-> "visit"]
          /\ result' = addIntFloatOrStrColumn(catalog, values, "visit")
    /\ pc' = "done"
    /\ UNCHANGED eupsVars

CallOrthogonalRegression ==
    /\ pc = "idle"
    /\ AtTopLevel
    /\ \E d \in DataVals, order \in OrderVals, initialGuess \in GuessVals :
          LET seed == SeedGuess(d.x, d.y, order, initialGuess)
          IN  \E odrBeta \in OdrOutcomes(d.x, d.y, OdrModelFor(order), seed, FitVals) :
                /\ call' = [fn |-> "orthogonalRegression", x |-> d.x, y |-> d.y,
                            order |-> order, initialGuess |-> initialGuess]
                /\ result' = orthogonalRegression(d.x, d.y, order, initialGuess, odrBeta)
    /\ pc' = "done"
    /\ UNCHANGED eupsVars

CallDistanceSquaredToPoly ==
    /\ pc = "idle"
    /\ AtTopLevel
    /\ \E x1 \in CoordVals, y1 \in CoordVals, x2 \in CoordVals, poly \in PolyVals :
          /\ call' = [fn |-> "distanceSquaredToPoly", x1 |-> x1, y1 |-> y1,
                      x2 |-> x2, poly |-> poly]
          /\ result' = distanceSquaredToPoly(x1, y1, x2, poly)
    /\ pc' = "done"
    /\ UNCHANGED eupsVars

\* getEups(), called anywhere: inside or outside andCatalog blocks.
GetEups ==
    /\ pc = "idle"
    /\ exc = "none"
    /\ LET e == EupsHandle(eupsGlobal, eupsBuilt)
       IN  /\ eupsGlobal' = e.handle
           /\ eupsBuilt' = e.built
           /\ call' = [fn |-> "getEups", before |-> eupsGlobal]
           /\ result' = [raised |-> "none", handle |-> e.handle]
    /\ pc' = "done"
    /\ UNCHANGED <<setupVersion, frames, exc>>

\* with andCatalog(version): the generator runs up to its yield (lines
\* 999-1003): it takes the handle, notes the version set up, sets version up.
EnterAndCatalog ==
    /\ pc = "idle"
    /\ exc = "none"
    /\ Len(frames) < MaxDepth
    /\ \E version \in Versions :
          LET e == EupsHandle(eupsGlobal, eupsBuilt)
          IN  /\ eupsGlobal' = e.handle
              /\ eupsBuilt' = e.built
              /\ frames' = Append(frames, [version |-> version, current |-> setupVersion,
                                            eups |-> e.handle])
              /\ setupVersion' = version
    /\ UNCHANGED <<pc, call, result, exc>>

\* The innermost block completes: the generator resumes after its yield and
\* runs its finally clause.
ExitAndCatalog ==
    /\ pc = "idle"
    /\ exc = "none"
    /\ frames # <<>>
    /\ setupVersion' = RestoredVersion(frames[Len(frames)], setupVersion, FALSE)
    /\ frames' = SubSeq(frames, 1, Len(frames) - 1)
    /\ UNCHANGED <<pc, call, result, eupsGlobal, eupsBuilt, exc>>

\* The code of the innermost block raises an exception.
BlockRaises ==
    /\ pc = "idle"
    /\ exc = "none"
    /\ frames # <<>>
    /\ exc' = "raised"
    /\ UNCHANGED <<pc, call, result, eupsGlobal, eupsBuilt, setupVersion, frames>>

\* The exception leaves the innermost block: it is thrown into the generator
\* at its yield, the finally clause runs and the exception goes on to the
\* code around the with statement.
UnwindAndCatalog ==
    /\ exc = "raised"
    /\ frames # <<>>
    /\ setupVersion' = RestoredVersion(frames[Len(frames)], setupVersion, TRUE)
    /\ frames' = SubSeq(frames, 1, Len(frames) - 1)
    /\ UNCHANGED <<pc, call, result, eupsGlobal, eupsBuilt, exc>>

\* The code the exception has reached handles it, in a block or at top level.
CatchException ==
    /\ exc = "raised"
    /\ exc' = "none"
    /\ UNCHANGED <<pc, call, result, eupsGlobal, eupsBuilt, setupVersion, frames>>

CallGetRepoInfo ==
    /\ pc = "idle"
    /\ AtTopLevel
    /\ \E dataId \in DataIdVals, coaddName \in CoaddNameVals,
          coaddDataset \in CoaddDatasetVals, doApplyUberCal \in BOOLEAN,
          metadata \in MetadataVals :
          /\ call' = [fn |-> "getRepoInfo", dataId |-> dataId,
                      coaddName |-> coaddName, coaddDataset |-> coaddDataset,
                      doApplyUberCal |-> doApplyUberCal, metadata |-> metadata]
          /\ result' = getRepoInfo(dataId, coaddName, coaddDataset,
                                   doApplyUberCal, metadata)
    /\ pc' = "done"
    /\ UNCHANGED eupsVars

CallSetAliasMaps ==
    /\ pc = "idle"
    /\ AtTopLevel
    /\ \E catalog \in AliasCatalogVals, aliasDictList \in AliasDictListVals,
          prefix \in PrefixVals :
          /\ call' = [fn |-> "setAliasMaps", catalog |-> catalog,
                      aliasDictList |-> aliasDictList, prefix |-> prefix]
          /\ result' = setAliasMaps(catalog, aliasDictList, prefix)
    /\ pc' = "done"
    /\ UNCHANGED eupsVars

CallBackoutApCorr ==
    /\ pc = "idle"
    /\ AtTopLevel
    /\ \E catalog \in FluxCatalogVals :
          /\ call' = [fn |-> "backoutApCorr", catalog |-> catalog]
          /\ result' = backoutApCorr(catalog)
    /\ pc' = "done"
    /\ UNCHANGED eupsVars

CallCheckPatchOverlap ==
    /\ pc = "idle"
    /\ AtTopLevel
    /\ \E patchList \in PatchListVals, tractInfo \in TractInfoVals :
          /\ call' = [fn |-> "checkPatchOverlap", patchList |-> patchList,
                      tractInfo |-> tractInfo]
          /\ result' = checkPatchOverlap(patchList, tractInfo)
    /\ pc' = "done"
    /\ UNCHANGED eupsVars

CallEnforcer ==
    /\ pc = "idle"
    /\ AtTopLevel
    /\ \E requireGreater \in RequireVals(0), requireLess \in RequireVals(2),
          doRaise \in BOOLEAN, stats \in StatsVals :
          /\ call' = [fn |-> "Enforcer", requireGreater |-> requireGreater,
                      requireLess |-> requireLess, doRaise |-> doRaise,
                      stats |-> stats]
          /\ result' = EnforcerCall(requireGreater, requireLess, doRaise, stats)
    /\ pc' = "done"
    /\ UNCHANGED eupsVars

CallAddFootprintNPix ==
    /\ pc = "idle"
    /\ AtTopLevel
    /\ \E catalog \in SourceCatalogVals, fromCat \in FromCatVals,
          prefix \in PrefixVals :
          /\ call' = [fn |-> "addFootprintNPix", catalog |-> catalog,
                      fromCat |-> fromCat, prefix |-> prefix]
          /\ result' = addFootprintNPix(catalog, fromCat, prefix)
    /\ pc' = "done"
    /\ UNCHANGED eupsVars

Next ==
    \/ CallMakeEqnStr
    \/ CallOrthogonalRegression
    \/ CallDistanceSquaredToPoly
    \/ CallP1CoeffsFromP2x0y0
    \/ CallP2p1CoeffsFromLinearFit
    \/ CallLineFromP2Coeffs
    \/ CallLinesFromP2P1Coeffs
    \/ CallLineFromP2CoeffsDirect
    \/ CallLinesFromP2P1CoeffsDirect
    \/ CallMakeBadArray
    \/ CallAddFlag
    \/ CallAddIntFloatOrStrColumn
    \/ CallWriteParquet
    \/ CallGetRepoInfo
    \/ CallSetAliasMaps
    \/ CallBackoutApCorr
    \/ CallCheckPatchOverlap
    \/ CallEnforcer
    \/ CallAddFootprintNPix
    \/ GetEups
    \/ EnterAndCatalog
    \/ ExitAndCatalog
    \/ BlockRaises
    \/ UnwindAndCatalog
    \/ CatchException
    \/ Return

Spec == Init /\ [][Next]_vars

(***************************************************************************)
(* Properties.                                                             *)
(***************************************************************************)
Called(fn) == pc = "done" /\ call.fn = fn

\* C1: a call of orthogonalRegression with order outside {1,2,3}, with or
\* without an initial guess, raises the invalid-order RuntimeError; no ODR
\* object is built, no fit is run and no coefficient list is returned.
C1_InvalidOrderRaises ==
    (Called("orthogonalRegression") /\ call.order \notin {1, 2, 3}) =>
        /\ result.raised = "RuntimeError"
        /\ result.odrCalls = 0
        /\ result.odrRuns = 0
        /\ ~result.returned
        /\ result.ret = <<>>

C1_Witness ==
    /\ Called("orthogonalRegression")
    /\ call.order = 4
    /\ call.initialGuess.given
    /\ Len(call.initialGuess.v) = 4
    /\ result.raised = "RuntimeError"

\* C2: makeEqnStr("P1", [2.0, -1.5], ["c1", "c2"]) returns exactly
\* "P1 = 2.000c1 $-$ 1.500c2": no sign before a non-negative first term.
C2_LiteralNoLeadingSign ==
    (/\ Called("makeEqnStr")
     /\ call.varName = "P1"
     /\ call.coeffList = <<Rat(2, 1), Rat(0 - 3, 2)>>
     /\ call.exponentList = <<"c1", "c2">>) =>
        result.eqnStr = "P1 = 2.000c1 $-$ 1.500c2"

\* C3: makeEqnStr raises RuntimeError exactly when the two lists differ in
\* length, and then before any part of the string is built; with equal
\* lengths (both empty included) it returns a string.
C3_LengthMismatchExactly ==
    Called("makeEqnStr") =>
        /\ (result.raised = "RuntimeError") <=>
               (Len(call.coeffList) # Len(call.exponentList))
        /\ (result.raised = "RuntimeError") => (~result.assigned /\ result.eqnStr = "")
        /\ (Len(call.coeffList) = Len(call.exponentList)) =>
               (result.raised = "none" /\ result.assigned)
        /\ (call.coeffList = <<>> /\ call.exponentList = <<>>) =>
               result.eqnStr = call.varName \o " = "

C3_Witness ==
    /\ Called("makeEqnStr")
    /\ Len(call.coeffList) = 2
    /\ Len(call.exponentList) = 1
    /\ result.raised = "RuntimeError"

\* C4: lineFromP2Coeffs applied to the p2Coeffs of
\* p2p1CoeffsFromLinearFit(m, b, x0, y0) gives back mP1 = m and bP1 = b, for
\* every origin.
C4_LineRoundTrip ==
    (Called("lineFromP2Coeffs") /\ "fit" \in DOMAIN call) =>
        (result.mP1 = call.fit.m /\ result.bP1 = call.fit.b)

C4_Witness ==
    /\ Called("lineFromP2Coeffs")
    /\ "fit" \in DOMAIN call
    /\ call.fit.m = XRat(Rat(1, 2))
    /\ call.fit.b = XRat(Rat(0 - 1, 2))
    /\ call.fit.x0 = XInt(1)
    /\ result.mP1 = XRat(Rat(1, 2))
    /\ result.bP1 = XRat(Rat(0 - 1, 2))

\* The origin (x0, y0) a fit was made with lies on the fitted line.
OriginOnLine(fit) == fit.y0 = XAdd(XMul(fit.m, fit.x0), fit.b)

\* C5 as stated: linesFromP2P1Coeffs applied to the coefficients of
\* p2p1CoeffsFromLinearFit(m, b, x0, y0) returns the caller's origin,
\* whatever origin the caller chose.
C5_OriginRecovered ==
    (Called("linesFromP2P1Coeffs") /\ "fit" \in DOMAIN call) =>
        (result.x0 = call.fit.x0 /\ result.y0 = call.fit.y0)

\* C5 amended: the point returned is the foot of the perpendicular from the
\* caller's origin to the line y = m*x + b (it lies on the line, and its
\* offset from the origin is perpendicular to the line), which is the
\* caller's origin exactly when that origin lies on the line.
C5_OriginProjected ==
    (Called("linesFromP2P1Coeffs") /\ "fit" \in DOMAIN call) =>
        /\ result.y0 = XAdd(XMul(call.fit.m, result.x0), call.fit.b)
        /\ XAdd(XSub(result.x0, call.fit.x0),
                XMul(call.fit.m, XSub(result.y0, call.fit.y0))) = XZero
        /\ (result.x0 = call.fit.x0 /\ result.y0 = call.fit.y0) <=>
               OriginOnLine(call.fit)

C5_Witness ==
    /\ Called("linesFromP2P1Coeffs")
    /\ "fit" \in DOMAIN call
    /\ call.fit = FitArgs(Rat(1, 1), Rat(0, 1), 1, 0)
    /\ result.x0 = XRat(Rat(1, 2))
    /\ result.y0 = XRat(Rat(1, 2))

\* C6: for p2Coeffs[2] # 0, p1CoeffsFromP2x0y0 returns the 4 elements
\* [cos t, sin t - cos t, -sin t, -cos t*x0 - sin t*y0], t = atan(p2Coeffs[0]
\* / p2Coeffs[2]) (cos t > 0, cos^2 + sin^2 = 1, sin t = tan t * cos t), so
\* that p1[0]*x0 - p1[2]*y0 + p1[3] = 0 and p1[0] + p1[1] + p1[2] = 0.
C6_P1ZeroAtOrigin ==
    (Called("p1CoeffsFromP2x0y0") /\ ~XIsZero(call.p2Coeffs[3])) =>
        LET p1 == result.p1Coeffs
            cosT == p1[1]
            sinT == XNeg(p1[3])
            tanT == XDiv(call.p2Coeffs[1], call.p2Coeffs[3])
        IN  /\ Len(p1) = 4
            /\ XIsPositive(cosT)
            /\ XAdd(XSq(cosT), XSq(sinT)) = XOne
            /\ sinT = XMul(tanT, cosT)
            /\ p1[2] = XSub(sinT, cosT)
            /\ p1[4] = XSub(XNeg(XMul(cosT, call.x0)), XMul(sinT, call.y0))
            /\ XAdd(XSub(XMul(p1[1], call.x0), XMul(p1[3], call.y0)), p1[4]) = XZero
            /\ XAdd(XAdd(p1[1], p1[2]), p1[3]) = XZero

C6_Witness ==
    /\ Called("p1CoeffsFromP2x0y0")
    /\ call.p2Coeffs[1] = XInt(1)
    /\ call.p2Coeffs[3] = XInt(0 - 2)
    /\ call.x0 = XInt(1)
    /\ call.y0 = XInt(0 - 1)
    /\ result.p1Coeffs[4] # XZero

\* a == b for floats: equal values, +0.0 and -0.0 being equal.
SameNumber(a, b) ==
    a = b \/ (XIsZero(a) /\ XIsFinite(a) /\ XIsZero(b) /\ XIsFinite(b))

\* C7: the p2Coeffs of p2p1CoeffsFromLinearFit(m, b, x0, y0) is a 4-vector
\* proportional (by a positive factor) to [-m, m+1, -1, -b] whose first three
\* components have squares summing to 1; the fourth is divided by the same
\* norm and does not enter it.
C7_P2UnitNormal ==
    Called("p2p1CoeffsFromLinearFit") =>
        LET p2 == result.p2Coeffs
            v == <<XNeg(call.fit.m), XAdd(call.fit.m, XOne), XNeg(XOne),
                   XNeg(call.fit.b)>>
            k == XDiv(p2[3], v[3])
        IN  /\ Len(p2) = 4
            /\ XIsPositive(k)
            /\ \A i \in 1..4 : SameNumber(p2[i], XMul(k, v[i]))
            /\ XAdd(XAdd(XSq(p2[1]), XSq(p2[2])), XSq(p2[3])) = XOne

C7_Witness ==
    /\ Called("p2p1CoeffsFromLinearFit")
    /\ call.fit.m = XRat(Rat(1, 2))
    /\ call.fit.b = XInt(1)
    /\ result.p2Coeffs[4] # XZero

\* The value of the polynomial with coefficients coeffs (highest power
\* first) at x, as the sum of its terms.
RECURSIVE PolyTerms(_, _, _)
PolyTerms(coeffs, x, i) ==
    IF i > Len(coeffs) THEN 0
    ELSE coeffs[i] * Pow(x, Len(coeffs) - i) + PolyTerms(coeffs, x, i + 1)

\* C8: distanceSquaredToPoly(x1, y1, x2, poly) returns
\* (x2 - x1)^2 + (poly(x2) - y1)^2 (2 for poly(x) = x and (0, 0, 1)) and
\* evaluates poly only at x2.
C8_DistanceSquared ==
    Called("distanceSquaredToPoly") =>
        LET dx == call.x2 - call.x1
            dy == PolyTerms(call.poly, call.x2, 1) - call.y1
        IN  /\ result.value = dx * dx + dy * dy
            /\ result.evals = <<call.x2>>
            /\ (call.x1 = 0 /\ call.y1 = 0 /\ call.x2 = 1 /\ call.poly = <<1, 0>>) =>
                   result.value = 2

C8_Witness ==
    /\ Called("distanceSquaredToPoly")
    /\ call.x1 = 0
    /\ call.y1 = 0
    /\ call.x2 = 1
    /\ call.poly = <<1, 0>>
    /\ result.value = 2

\* C9 as stated: every successful call with order in {1,2,3}, with or
\* without an initial guess of any length, returns exactly order+1
\* coefficients.
C9_LengthOrderPlusOne ==
    (Called("orthogonalRegression") /\ call.order \in {1, 2, 3} /\ result.returned) =>
        Len(result.ret) = call.order + 1

\* C9 amended: a successful call with order in {1,2,3} returns as many
\* elements as the seed vector handed to the solver, at least order+1 of them:
\* exactly order+1 when no guess is supplied or the guess has order+1 elements,
\* more when the guess is longer.  The last order+1 elements are the fitted
\* coefficients of x^order, ..., x^0 in that order (element k from the end
\* is the parameter the model function multiplies by x^k).
C9_LengthOfSeed ==
    (Called("orthogonalRegression") /\ call.order \in {1, 2, 3} /\ result.returned) =>
        LET n == Len(result.ret)
        IN  /\ n = Len(result.beta0)
            /\ n >= call.order + 1
            /\ (n = call.order + 1) <=>
                   (~call.initialGuess.given
                        \/ Len(call.initialGuess.v) = call.order + 1)
            /\ call.initialGuess.given => n = Len(call.initialGuess.v)
            /\ \A k \in 0..call.order : result.ret[n - k] = result.beta[k + 1]

C9_Witness ==
    /\ Called("orthogonalRegression")
    /\ call.order = 1
    /\ call.initialGuess.given
    /\ Len(call.initialGuess.v) = 3
    /\ result.returned
    /\ Len(result.ret) = 3
    /\ result.ret[1] # result.ret[3]

\* The sum of the residuals y[i] - (s*x[i] + c), plain and weighted by x[i],
\* for the line of slope s and intercept c: both are 0 exactly for the
\* least-squares line (the normal equations).
ResidualSum(x, y, s, c) ==
    LET n == Len(x)
    IN  RSub(RInt(SumOver(y, n)),
             RAdd(RMul(s, RInt(SumOver(x, n))), RMul(c, RInt(n))))
ResidualMoment(x, y, s, c) ==
    LET n == Len(x)
    IN  RSub(RInt(SumOver([i \in 1..n |-> x[i] * y[i]], n)),
             RAdd(RMul(s, RInt(SumOver([i \in 1..n |-> x[i] * x[i]], n))),
                  RMul(c, RInt(SumOver(x, n)))))

\* C10: with no initial guess and order in {1,2,3} the vector handed to the
\* solver has order+1 elements: order-1 zeros, then the least-squares slope,
\* then the least-squares intercept of (x, y); a caller's guess is handed
\* over as it is.
C10_SeedPaddedLinearFit ==
    (Called("orthogonalRegression") /\ call.order \in {1, 2, 3}) =>
        /\ result.odrCalls = 1
        /\ call.initialGuess.given => result.beta0 = call.initialGuess.v
        /\ ~call.initialGuess.given =>
              LET b0 == result.beta0
                  n == call.order
              IN  /\ Len(b0) = n + 1
                  /\ \A i \in 1..(n - 1) : b0[i] = RZero
                  /\ ResidualSum(call.x, call.y, b0[n], b0[n + 1]) = RZero
                  /\ ResidualMoment(call.x, call.y, b0[n], b0[n + 1]) = RZero

C10_Witness ==
    /\ Called("orthogonalRegression")
    /\ call.order = 3
    /\ ~call.initialGuess.given
    /\ call.y = <<1, 0, 0, 1>>
    /\ result.beta0 = <<RZero, RZero, Rat(2, 129), Rat(103, 258)>>
    /\ result.odrRuns = 1

\* The value at x of the polynomial whose coefficients are p[1..n] read
\* highest power first: p[i] multiplies x^(n - i).
RECURSIVE HighestFirstValue(_, _, _)
HighestFirstValue(p, x, n) ==
    IF n = 0 THEN RZero
    ELSE RAdd(RMul(HighestFirstValue(p, x, n - 1), RInt(x)), p[n])

\* C11 as stated: the vector given to the solver as beta0 is read highest
\* power first by the model function, as the returned list is: element 0
\* seeds the coefficient of x^order and the last element the constant term,
\* so the seeded curve is the polynomial with the guess as its coefficients,
\* highest power first, for a supplied guess and for the default seed.
C11_GuessHighestFirst ==
    (Called("orthogonalRegression") /\ result.odrRuns = 1
        /\ Len(result.beta0) = call.order + 1) =>
        \A i \in 1..Len(call.x) :
            fModel(result.odrModel, result.beta0, call.x[i])
                = HighestFirstValue(result.beta0, call.x[i], Len(result.beta0))

\* C12: for two or more distinct points of the line y = 2x + 1, the call
\* with order 1 and no initial guess returns, and returns [2, 1]: the slope
\* first and the intercept second.
C12_LineRecovered ==
    (Called("orthogonalRegression") /\ call.order = 1 /\ ~call.initialGuess.given
        /\ Len(call.x) >= 2
        /\ \A i \in 1..Len(call.x) : call.y[i] = 2 * call.x[i] + 1) =>
        /\ result.returned
        /\ result.ret = <<RInt(2), RInt(1)>>

C12_Witness ==
    /\ Called("orthogonalRegression")
    /\ call.order = 1
    /\ ~call.initialGuess.given
    /\ call.x = <<0, 3, 8>>
    /\ call.y = <<1, 7, 17>>
    /\ result.beta0 = <<RInt(2), RInt(1)>>
    /\ result.beta = <<RInt(1), RInt(2)>>
    /\ result.ret = <<RInt(2), RInt(1)>>

\* C13: inside an andCatalog(version) block the version set up is the version
\* the block asked for (for nested blocks: the innermost block's own version,
\* and the version each block found at entry is its enclosing block's); every
\* step that leaves a block, by completion or by an exception, sets up again
\* the version the block found at entry, and an exception that leaves the
\* block is still propagating after the restoration.
C13_VersionScoped ==
    /\ [](/\ frames # <<>> => setupVersion = frames[Len(frames)].version
          /\ \A k \in 2..Len(frames) : frames[k].current = frames[k - 1].version)
    /\ [][Len(frames') < Len(frames) =>
             /\ frames' = SubSeq(frames, 1, Len(frames) - 1)
             /\ setupVersion' = frames[Len(frames)].current
             /\ exc' = exc]_vars

\* An exception has left the outermost block and is on its way to the
\* caller, with the version of before the block set up again.
C13_Witness ==
    /\ frames = <<>>
    /\ exc = "raised"
    /\ setupVersion = "v1"
    /\ eupsGlobal = 1

\* C14: whatever getEups() calls and andCatalog() uses have happened, at most
\* one Eups handle has been constructed; it is the one stored in the module
\* global, the one every getEups() call returned and the one every andCatalog
\* block works with.
C14_EupsBuiltOnce ==
    /\ eupsBuilt <= 1
    /\ eupsGlobal = eupsBuilt
    /\ Called("getEups") =>
          /\ result.handle = 1
          /\ call.before # 0 => result.handle = call.before
    /\ \A k \in 1..Len(frames) : frames[k].eups = 1

C14_Witness ==
    /\ Called("getEups")
    /\ call.before = 1
    /\ result.handle = 1
    /\ eupsBuilt = 1
    /\ Len(frames) = 2

\* The call in progress has ended with exception e.
HasRaised(e) == "raised" \in DOMAIN result /\ result.raised = e

\* C16 as stated: a call of p1CoeffsFromP2x0y0 or lineFromP2Coeffs with
\* p2Coeffs[2] = 0 fails with a division error or returns a result holding a
\* non-finite value; it never returns a result whose values are all finite.
C16_ZeroDivisorNeverFinite ==
    /\ (Called("p1CoeffsFromP2x0y0") /\ XIsZero(call.p2Coeffs[3])) =>
          \/ HasRaised("ZeroDivisionError")
          \/ \E k \in 1..4 : ~XIsFinite(result.p1Coeffs[k])
    /\ (Called("lineFromP2Coeffs") /\ XIsZero(call.p2Coeffs[3])) =>
          \/ HasRaised("ZeroDivisionError")
          \/ ~XIsFinite(result.mP1)
          \/ ~XIsFinite(result.bP1)

\* C16 amended: with p2Coeffs[2] = 0 (+0.0 or -0.0) and Python floats both
\* functions raise ZeroDivisionError (no error of their own).  With numpy
\* floats neither raises: lineFromP2Coeffs returns mP1 = nan when p2Coeffs[0]
\* is 0 as well and otherwise mP1 = s*inf, s the sign of p2Coeffs[0] times
\* the sign of the zero p2Coeffs[2], with a non-finite bP1;
\* p1CoeffsFromP2x0y0 returns four nan when p2Coeffs[0] is 0 as well, and
\* otherwise four finite coefficients, those of the angle s*pi/2 (cosine 0,
\* sine s): [0, s, -s, -s*y0].
C16_ZeroDivisorOutcome ==
    LET positive == XIsPositive(call.p2Coeffs[1]) # (call.p2Coeffs[3] = NegZero)
        sgn == IF positive THEN XOne ELSE XNeg(XOne)
    IN  /\ (Called("p1CoeffsFromP2x0y0") /\ XIsZero(call.p2Coeffs[3])) =>
              IF ~call.numpy THEN HasRaised("ZeroDivisionError")
              ELSE /\ HasRaised("none")
                   /\ IF XIsZero(call.p2Coeffs[1])
                      THEN result.p1Coeffs = <<NaN, NaN, NaN, NaN>>
                      ELSE result.p1Coeffs
                               = <<XZero, sgn, XNeg(sgn), XNeg(XMul(sgn, call.y0))>>
        /\ (Called("lineFromP2Coeffs") /\ XIsZero(call.p2Coeffs[3])) =>
              IF ~call.numpy THEN HasRaised("ZeroDivisionError")
              ELSE /\ ~HasRaised("ZeroDivisionError")
                   /\ result.mP1 = IF XIsZero(call.p2Coeffs[1]) THEN NaN
                                   ELSE IF positive THEN PosInf ELSE NegInf
                   /\ ~XIsFinite(result.mP1)
                   /\ ~XIsFinite(result.bP1)

\* A numpy p2Coeffs with p2Coeffs[2] = -0.0 and p2Coeffs[0] > 0 has given
\* finite P1 coefficients, those of the angle -pi/2.
C16_Witness ==
    /\ Called("p1CoeffsFromP2x0y0")
    /\ call.numpy
    /\ call.p2Coeffs[1] = XInt(2)
    /\ call.p2Coeffs[3] = NegZero
    /\ call.y0 = XInt(1)
    /\ result.p1Coeffs = <<XZero, XInt(0 - 1), XOne, XOne>>

\* C17: for p2Coeffs with a finite non-zero slope mP1 = p2Coeffs[0] /
\* p2Coeffs[2] and any P1 offset p1Coeffs[3], linesFromP2P1Coeffs returns the
\* (mP1, bP1) of lineFromP2Coeffs(p2Coeffs), mP2 = -1/mP1, and a point
\* (x0, y0) on both lines that satisfies cos(t)*x0 + sin(t)*y0 + p1Coeffs[3]
\* = 0 for t = atan(mP1) (cos t = 1/sqrt(1 + mP1^2), sin t = mP1*cos t).
C17_LinesConsistent ==
    (Called("linesFromP2P1Coeffs") /\ ~XIsZero(call.p2Coeffs[1])) =>
        LET line == lineFromP2Coeffs(call.p2Coeffs)
            cosT == XInv(XSqrt(XAdd(XOne, XSq(result.mP1))))
            sinT == XMul(result.mP1, cosT)
        IN  /\ result.mP1 = XDiv(call.p2Coeffs[1], call.p2Coeffs[3])
            /\ result.mP1 = line.mP1
            /\ result.bP1 = line.bP1
            /\ XMul(result.mP1, result.mP2) = XNeg(XOne)
            /\ result.y0 = XAdd(XMul(result.mP1, result.x0), result.bP1)
            /\ result.y0 = XAdd(XMul(result.mP2, result.x0), result.bP2)
            /\ XAdd(XAdd(XMul(cosT, result.x0), XMul(sinT, result.y0)),
                    call.p1Coeffs[4]) = XZero

C17_Witness ==
    /\ Called("linesFromP2P1Coeffs")
    /\ "fit" \notin DOMAIN call
    /\ call.p2Coeffs = <<XInt(2), XInt(1), XInt(0 - 1), XInt(0)>>
    /\ call.p1Coeffs[4] = XInt(1)
    /\ result.mP1 = XInt(0 - 2)
    /\ result.mP2 = XRat(Rat(1, 2))
    /\ ~XIsZero(result.x0)

\* The criteria that make row a bad source, from the claim's list.
IsBadSource(schema, row, flagList, opts) ==
    \/ row.deblend_nChild > 0
    \/ "merge_peak_sky" \in schema /\ row.merge_peak_sky
    \/ \E k \in 1..Len(flagList) : row[flagList[k]]
    \/ opts.patchInnerOnly /\ "detect_isPatchInner" \in schema
          /\ ~row.detect_isPatchInner
    \/ opts.tractInnerOnly /\ "detect_isTractInner" \in schema
          /\ ~row.detect_isTractInner
    \/ opts.onlyReadStars /\ "base_ClassificationExtendedness_value" \in schema
          /\ RLt(Rat(1, 2), row.base_ClassificationExtendedness_value)

\* C18: makeBadArray returns one boolean per catalog row, TRUE exactly for
\* the rows that meet one of the criteria (a parent, a sky object, a listed
\* flag set, outside the inner patch or tract when asked for and recorded,
\* extended when only stars are asked for and the extendedness is recorded);
\* with the default options a source outside the inner patch is bad and one
\* outside the inner tract is not bad for that; the catalog is unchanged.
C18_BadExactlyByCriteria ==
    Called("makeBadArray") =>
        LET cat == call.catalog
            n == Len(cat.rows)
        IN  /\ Len(result.bad) = n
            /\ \A i \in 1..n :
                  /\ result.bad[i] \in BOOLEAN
                  /\ result.bad[i]
                        <=> IsBadSource(cat.schema, cat.rows[i], call.flagList, call.opts)
                  /\ (~call.opts.given /\ "detect_isPatchInner" \in cat.schema
                        /\ ~cat.rows[i].detect_isPatchInner) => result.bad[i]
                  /\ (~call.opts.given /\ "detect_isTractInner" \in cat.schema
                        /\ cat.rows[i] = [f \in cat.schema |->
                               IF f = "detect_isTractInner" THEN FALSE ELSE GoodRow[f]])
                        => ~result.bad[i]
            /\ result.catalog = cat

C18_Witness ==
    /\ Called("makeBadArray")
    /\ ~call.opts.given
    /\ call.catalog.schema = DOMAIN GoodRow
    /\ Len(call.catalog.rows) = 2
    /\ ~call.catalog.rows[1].detect_isPatchInner
    /\ ~call.catalog.rows[2].detect_isTractInner
    /\ result.bad = <<TRUE, FALSE>>

\* C15: without the fastparquet writer writeParquet returns without raising,
\* flagging, converting or writing, whatever the table, the path (ending in
\* ".parq" or not) and the bad array; with the writer a path that does not
\* end in ".parq" raises ValueError before any flagging, conversion or write.
C15_NoWriterNoEffect ==
    Called("writeParquet") =>
        /\ ~call.fastparquet =>
              result = [raised |-> "none", flagged |-> 0, converted |-> FALSE,
                        written |-> <<>>]
        /\ result.raised = "ValueError" =>
              (call.fastparquet /\ ~EndsWith(call.path, <<".", "p", "a", "r", "q">>))
        /\ (call.fastparquet /\ ~EndsWith(call.path, <<".", "p", "a", "r", "q">>)) =>
              result = [raised |-> "ValueError", flagged |-> 0, converted |-> FALSE,
                        written |-> <<>>]

\* No writer, a path without the suffix, a bad array that does not match the
\* table: the call has returned quietly.
C15_Witness ==
    /\ Called("writeParquet")
    /\ ~call.fastparquet
    /\ call.path = <<"q", ".", "c", "s", "v">>
    /\ call.badArray.given
    /\ Len(call.badArray.v) # Len(call.table.rows)
    /\ result.raised = "none"
    /\ result.written = <<>>

\* C19 as stated: addFlag raises RuntimeError, producing no catalog, when
\* the catalog and badArray lengths differ, and otherwise returns a new
\* catalog with the rows in their order, every original column, and
\* flagName = bool(badArray[i]) in row i; the arguments are unchanged.
C19_AddFlagReturns ==
    Called("addFlag") =>
        /\ result.catalog = call.catalog
        /\ result.badArray = call.badArray
        /\ IF Len(call.catalog.rows) # Len(call.badArray)
           THEN result.raised = "RuntimeError" /\ "newCatalog" \notin DOMAIN result
           ELSE /\ result.raised = "none"
                /\ Len(result.newCatalog.rows) = Len(call.catalog.rows)
                /\ \A i \in 1..Len(call.catalog.rows) :
                      /\ \A f \in call.catalog.schema :
                            result.newCatalog.rows[i][f] = call.catalog.rows[i][f]
                      /\ result.newCatalog.rows[i][call.flagName]
                            = (call.badArray[i] # 0)

\* C20 as stated: a values list whose length is neither 1 nor len(catalog),
\* a bool or other non-int/float/str scalar, and a list with a bool element
\* or of mixed types raise RuntimeError and produce no catalog; otherwise
\* the new field is an integer field when every value is exactly an int, a
\* floating field when every value is a float, a string field sized to the
\* longest value when every value is a str, and a length-1 list sets the
\* same value on every row.
C20_TypeFromValues ==
    Called("addIntFloatOrStrColumn") =>
        LET v == call.values.v
            n == Len(call.catalog.rows)
            allInt == \A k \in 1..Len(v) : v[k].type = "int"
            allFloat == \A k \in 1..Len(v) : v[k].type \in {"float", "numpy.float64"}
            allStr == \A k \in 1..Len(v) : v[k].type = "str"
            badScalar == ~call.values.list /\ v[1].type \notin {"int", "float", "str"}
            badLength == Len(v) \notin {n, 1}
            badTypes == ~allInt /\ ~allFloat /\ ~allStr
        IN  IF badScalar \/ badLength \/ badTypes
            THEN result.raised = "RuntimeError" /\ "newCatalog" \notin DOMAIN result
            ELSE /\ result.raised = "none"
                 /\ allInt => result.fieldType = "I"
                 /\ (~allInt /\ allFloat) => result.fieldType = "D"
                 /\ (~allInt /\ ~allFloat) =>
                       /\ result.fieldType = "str"
                       /\ \A k \in 1..Len(v) : Len(v[k].val) <= result.size
                       /\ \E k \in 1..Len(v) : Len(v[k].val) = result.size
                 /\ Len(result.newCatalog.rows) = n
                 /\ \A i \in 1..n :
                       result.newCatalog.rows[i][call.fieldName]
                           = IF Len(v) = 1 THEN v[1] ELSE v[i]

\* C21 as stated: getRepoInfo raises RuntimeError before any access to the
\* butler exactly when one of coaddName and coaddDataset is given and the
\* other is None.
C21_OneCoaddArgRaises ==
    Called("getRepoInfo") =>
        ((result.raised = "RuntimeError" /\ result.butlerLog = <<>>)
            <=> ((call.coaddName = None) # (call.coaddDataset = None)))

\* The <<prefix + newName, prefix + oldName>> pairs of the entries of the
\* dicts, in iteration order, whose prefix + oldName is a schema name.
RECURSIVE QualifyingEntries(_, _, _, _, _)
QualifyingEntries(dicts, schema, prefix, d, k) ==
    IF d > Len(dicts) THEN <<>>
    ELSE IF k > Len(dicts[d].items)
    THEN QualifyingEntries(dicts, schema, prefix, d + 1, 1)
    ELSE LET it == dicts[d].items[k]
             rest == QualifyingEntries(dicts, schema, prefix, d, k + 1)
         IN  IF (prefix \o it[2]) \in schema
             THEN <<<<prefix \o it[1], prefix \o it[2]>>>> \o rest
             ELSE rest

\* C22: setAliasMaps sets the alias prefix+newName -> prefix+oldName for
\* exactly the entries whose prefix+oldName is in the schema, so every alias
\* it set points to a schema name and the other aliases are as before; a
\* single dict is treated as a one-element list; an element that is neither
\* a dict nor a config Dict gives RuntimeError with no alias set.
C22_AliasesForExistingNames ==
    Called("setAliasMaps") =>
        LET dicts == IF call.aliasDictList.kind = "dict"
                     THEN <<call.aliasDictList>>
                     ELSE Elements(call.aliasDictList)
            schema == call.catalog.schema
        IN  IF \E d \in 1..Len(dicts) : dicts[d].kind \notin {"dict", "Dict"}
            THEN /\ result.raised = "RuntimeError"
                 /\ result.setLog = <<>>
                 /\ result.catalog = call.catalog
            ELSE /\ result.raised = "none"
                 /\ result.setLog
                        = QualifyingEntries(dicts, schema, call.prefix, 1, 1)
                 /\ result.catalog.schema = schema
                 /\ \A k \in 1..Len(result.setLog) :
                       result.setLog[k][2] \in schema
                 /\ \A p \in result.catalog.aliasMap :
                       \/ \E k \in 1..Len(result.setLog) :
                             /\ result.setLog[k] = p
                             /\ \A j \in (k + 1)..Len(result.setLog) :
                                   result.setLog[j][1] # p[1]
                       \/ /\ p \in call.catalog.aliasMap
                          /\ \A k \in 1..Len(result.setLog) :
                                result.setLog[k][1] # p[1]
                 /\ \A k \in 1..Len(result.setLog) :
                       \E p \in result.catalog.aliasMap :
                          p[1] = result.setLog[k][1]
                 /\ \A p \in call.catalog.aliasMap :
                       (\A k \in 1..Len(result.setLog) :
                           result.setLog[k][1] # p[1])
                           => p \in result.catalog.aliasMap

\* A list of two dicts of which one entry names a schema field and the
\* others do not: only that alias is set.
C22_Witness ==
    /\ Called("setAliasMaps")
    /\ call.aliasDictList.kind = "list"
    /\ Len(call.aliasDictList.elems) = 2
    /\ call.prefix = ""
    /\ call.aliasDictList.elems[1] = [kind |-> "dict",
                                      items |-> <<<<"m", "x">>, <<"n", "y">>>>]
    /\ call.aliasDictList.elems[2] = [kind |-> "dict",
                                      items |-> <<<<"n", "y">>>>]
    /\ call.catalog.schema = {"x", "src_x", "src_y"}
    /\ result.raised = "none"
    /\ result.setLog = <<<<"m", "x">>>>
    /\ <<"m", "x">> \in result.catalog.aliasMap

\* C23 as stated: every column <alg>_instFlux whose <alg>_apCorr is in the
\* schema is divided row by row by that column, and every other column is
\* unchanged.
C23_FluxDividedByApCorr ==
    Called("backoutApCorr") =>
        LET cat == call.catalog
            IsInstFlux(k) ==
                /\ Len(k) > 9
                /\ SubSeq(k, Len(k) - 8, Len(k)) = "_instFlux"
            Alg(k) == SubSeq(k, 1, Len(k) - 9)
        IN  /\ result.raised = "none"
            /\ result.catalog.names = cat.names
            /\ \A k \in cat.names :
                  IF IsInstFlux(k) /\ (Alg(k) \o "_apCorr") \in cat.names
                  THEN /\ Len(result.catalog.columns[k]) = Len(cat.columns[k])
                       /\ \A i \in 1..Len(cat.columns[k]) :
                             result.catalog.columns[k][i]
                                 = NpDivide(cat.columns[k][i],
                                            cat.columns[Alg(k) \o "_apCorr"][i])
                  ELSE result.catalog.columns[k] = cat.columns[k]

\* C24 as stated: checkPatchOverlap returns True exactly when two positions
\* i < j hold different patch names whose outer boxes overlap, and False
\* otherwise, in particular for an empty patchList.
C24_OverlapExactly ==
    Called("checkPatchOverlap") =>
        /\ result.raised = "none"
        /\ result.value
              <=> \E i, j \in 1..Len(call.patchList) :
                     /\ i < j
                     /\ call.patchList[i] # call.patchList[j]
                     /\ Overlaps(PatchBBox(call.tractInfo, call.patchList[i]),
                                 PatchBBox(call.tractInfo, call.patchList[j]))

\* Every (label, statistic) of a dict of dicts, in iteration order, tagged
\* with the kind of limit.
RECURSIVE Tagged(_, _)
Tagged(require, kind) ==
    IF require = <<>> THEN <<>>
    ELSE [k \in 1..Len(require[1][2]) |->
             [kind |-> kind, label |-> require[1][1],
              ss |-> require[1][2][k][1], limit |-> require[1][2][k][2]]]
         \o Tagged(Tail(require), kind)

\* C25: Enforcer.__call__ warns for every requireGreater entry whose value
\* is <= its limit and every requireLess entry whose value is >= its limit
\* and for no value strictly inside; with doRaise False every violation is
\* logged and the call returns; with doRaise True it raises AssertionError
\* at the first violation in iteration order, requireGreater first, after
\* logging that one warning and without examining later entries.
C25_LimitsEnforced ==
    Called("Enforcer") =>
        LET all == Tagged(call.requireGreater, "minimum")
                   \o Tagged(call.requireLess, "maximum")
            Val(e) == call.stats[e.label][e.ss]
            Inside(e) == /\ ~Val(e).nan
                         /\ (e.kind = "minimum" => Val(e).v > e.limit)
                         /\ (e.kind = "maximum" => Val(e).v < e.limit)
            Violation(e) ==
                /\ ~Val(e).nan
                /\ IF e.kind = "minimum" THEN Val(e).v <= e.limit
                   ELSE Val(e).v >= e.limit
            Text(e) == [kind |-> e.kind, ss |-> e.ss, value |-> Val(e),
                        limit |-> e.limit]
            Seen(e) == <<e.kind, e.label, e.ss>>
            violations == SelectSeq(all, Violation)
            first == CHOOSE k \in 1..Len(all) :
                        Violation(all[k]) /\ \A j \in 1..(k - 1) : ~Violation(all[j])
        IN  /\ \A k \in 1..Len(all) :
                  Inside(all[k]) =>
                      \A w \in 1..Len(result.warnings) :
                          result.warnings[w] # Text(all[k])
            /\ IF ~call.doRaise
               THEN /\ result.raised = "none"
                    /\ result.warnings
                          = [w \in 1..Len(violations) |-> Text(violations[w])]
                    /\ result.examined = [k \in 1..Len(all) |-> Seen(all[k])]
               ELSE IF violations = <<>>
               THEN /\ result.raised = "none"
                    /\ result.warnings = <<>>
                    /\ result.examined = [k \in 1..Len(all) |-> Seen(all[k])]
               ELSE /\ result.raised = "AssertionError"
                    /\ result.warnings = <<Text(all[first])>>
                    /\ result.examined = [k \in 1..first |-> Seen(all[k])]

\* doRaise True, the first requireGreater entry within its limit, the second
\* at its limit, and a requireLess violation that is never examined.
C25_Witness ==
    /\ Called("Enforcer")
    /\ call.doRaise
    /\ call.requireGreater = <<<<"star", <<<<"mean", 0>>, <<"stdev", 0>>>>>>>>
    /\ call.requireLess = <<<<"star", <<<<"mean", 2>>>>>>,
                            <<"galaxy", <<<<"mean", 2>>>>>>>>
    /\ call.stats["star"]["mean"] = Num(2)
    /\ call.stats["star"]["stdev"] = Num(0)
    /\ result.raised = "AssertionError"
    /\ Len(result.warnings) = 1
    /\ result.warnings[1].kind = "minimum"
    /\ Len(result.examined) = 2

\* C26 as stated: with a fromCat of another length addFootprintNPix raises
\* TaskError; otherwise it returns one row per input source, with flag True
\* and nPix 0 on the rows whose footprint area cannot be obtained and the
\* area on the others.
C26_FootprintFailureFlagged ==
    Called("addFootprintNPix") =>
        LET from == IF call.fromCat.isNone THEN call.catalog
                    ELSE call.fromCat.rows
        IN  IF ~call.fromCat.isNone /\ Len(call.fromCat.rows) # Len(call.catalog)
            THEN result.raised = "TaskError"
            ELSE /\ result.raised = "none"
                 /\ Len(result.newCatalog) = Len(call.catalog)
                 /\ \A i \in 1..Len(call.catalog) :
                       /\ result.newCatalog[i].id = call.catalog[i].id
                       /\ IF from[i].hasFootprint
                          THEN /\ ~result.newCatalog[i].flag
                               /\ result.newCatalog[i].nPix = from[i].area
                          ELSE /\ result.newCatalog[i].flag
                               /\ result.newCatalog[i].nPix = 0

====
